---- MODULE Spec2Model ----
(***************************************************************************)
(* Draft turn engine of the fantasy-sports application.                    *)
(*                                                                         *)
(* Mock draft: tables mock_drafts / mock_draft_teams / mock_draft_picks    *)
(* and the functions make_mock_draft_pick, make_mock_draft_bot_pick of     *)
(* migration 008, plus the client call cancelMockDraft.                    *)
(* League draft: the singleton draft_state, draft_picks with its two       *)
(* UNIQUE constraints, and get_next_team / start_draft / make_pick /       *)
(* make_bot_pick.                                                          *)
(*                                                                         *)
(* Every remote call runs as one PostgreSQL transaction at the default     *)
(* isolation level READ COMMITTED (no migration sets another level and no  *)
(* statement takes FOR UPDATE): each SQL statement of a function reads the *)
(* rows committed when that statement starts, and the rows a transaction   *)
(* writes become visible to the others when it commits.  A call is         *)
(* therefore a sequence of steps, one per statement that reads mutable     *)
(* rows, followed by one commit step that publishes its writes.            *)
(***************************************************************************)
EXTENDS Integers, Sequences, FiniteSets, TLC

(***************************************************************************)
(* Bounds                                                                  *)
(***************************************************************************)
MaxBots == 2

MaxRounds == 2

NumPlayers == 3

MaxCalls == 3

MaxTeams == 4

MaxRound == 4

MaxPick == 7

MaxLeagueTeams == 2

MaxDrafts == 2
\* successful league operations followed in one run of the notification model
MaxOps == 2
\* calls issued in one run of the loop beside an overlapping call
MaxRaceCalls == 6

(***************************************************************************)
(* Program constants                                                       *)
(***************************************************************************)
v_bot_names ==
  << "Bot Warriors", "AI Titans", "Robo Raiders", "Cyber Crusaders",
     "Digital Dragons", "Machine Monsters", "Virtual Vikings", "Binary Bears",
     "Circuit Sharks", "Data Demons", "Neural Knights" >>

\* p_user_team_name: the name of the user's team in the league, free text;
\* nothing keeps it different from the bot names
UserTeamNames == {"My Team", "Bot Warriors"}

\* an id with no row in public.players (the rows have ids 1, 2, ...)
NoSuchPlayer == 0

\* the two client sessions whose calls may overlap
Callers == {"s1", "s2"}

NULL == "NULL"

\* leagues.commissioner_id of the league, and the values auth.uid() can have
Commissioner == "u1"

Users == {"u1", "u2", NULL}

VARIABLES
  \* ---- mock draft (one row of mock_drafts and its teams and picks)
  status, current_round, current_pick, draft_order, total_rounds,
  mock_draft_teams, mock_draft_picks,
  \* ---- the ids of the rows of public.players
  players,
  \* ---- calls in flight against the mock draft
  pc, req, snap, res,
  \* ---- the team named in the JSON result or in the error message of the
  \* ---- last call of each session
  info,
  \* ---- history: the draft as it was when two make_mock_draft_pick calls
  \* ---- were last issued against the same state
  base,
  \* ---- history: the draft as it was when the bot pick attempt in flight
  \* ---- was scheduled by its client
  sched,
  \* ---- the client loop processAllBotPicks: its position, the state it last
  \* ---- fetched, whether a bot pick call returned failure
  loop_pc, loop_state, loop_failed,
  \* ---- number of bot pick calls of the loop that returned success
  loop_picks,
  \* ---- number of calls issued so far (bounded runs only), and number of
  \* ---- calls that returned success
  calls, nOk,
  \* ---- turn resolution on its own: the inputs and what each function returned
  in_order, in_round, in_pick, out_mock, out_league,
  \* ---- and the schedule DraftOrderTable builds for in_round rounds
  out_schedule,
  \* ---- league draft: the singleton draft_state row, the drafts and
  \* ---- draft_picks tables, players.is_available, the teams of the league
  draft_state, drafts, draft_picks, is_available, teams, max_teams,
  \* ---- calls in flight against the league draft
  lpc, lreq, lstate, lres,
  \* ---- the team named in the error message of the last league call of
  \* ---- each session
  linfo,
  \* ---- what the last start_draft call returned or raised, or "Draft reset"
  \* ---- when a reset_draft call was the last of the two
  start_res,
  \* ---- several mock drafts: the tables mock_drafts, mock_draft_teams and
  \* ---- mock_draft_picks with the rows of every draft, and the arguments of
  \* ---- the last call
  mock_drafts, all_teams, all_picks, last_call,
  \* ---- the realtime channel of subscribeToChanges: whether it is joined,
  \* ---- the subscribed tables with a change not yet handled, the handler in
  \* ---- flight; op_seq counts the successful league operations committed
  \* ---- while the channel is joined and notified is the latest of them that
  \* ---- a snapshot handed to the callback was fetched after
  subscribed, events, handler, op_seq, notified,
  \* ---- the current_pick of the snapshots fetched and not yet handed to the
  \* ---- callback, and that of the snapshot the page holds (draftData)
  pending, shown,
  \* ---- the MockDraft page: the draftState and botProcessing it holds,
  \* ---- whether its bot effect is due to run, the position of each
  \* ---- processBotPicks run and of the other loadDraftData run with what
  \* ---- they fetched; whether the last bot pick call failed and
  \* ---- whether draftState still has the value it was requested for
  page_state, botProcessing, effect_due, page_pc, page_fetch, load_pc, page_load,
  last_failed, same_state

mockVars == << status, current_round, current_pick, draft_order, total_rounds,
               mock_draft_teams, mock_draft_picks, players, pc, req, snap, res, info,
               base, sched, calls, nOk >>

loopVars == << loop_pc, loop_state, loop_failed, loop_picks >>

pageVars == << page_state, botProcessing, effect_due, page_pc, page_fetch, load_pc,
               page_load, last_failed, same_state >>

resolveVars == << in_order, in_round, in_pick, out_mock, out_league, out_schedule >>

multiVars == << mock_drafts, all_teams, all_picks, last_call >>

notifyVars == << subscribed, events, handler, op_seq, notified, pending, shown >>

leagueVars == << draft_state, drafts, draft_picks, is_available, teams, max_teams,
                 lpc, lreq, lstate, lres, linfo, start_res >>

vars == << mockVars, loopVars, pageVars, resolveVars, multiVars, notifyVars, leagueVars >>

(***************************************************************************)
(* Helpers                                                                 *)
(***************************************************************************)
\* rows of public.players
Players == players

Range(s) == {s[i] : i \in DOMAIN s}

Permutations1(n) == {f \in [1..n -> 1..n] : \A i, j \in 1..n : f[i] = f[j] => i = j}

Min(S) == CHOOSE x \in S : \A y \in S : x <= y

(***************************************************************************)
(* create_league_mock_draft: the user's team, then p_num_bots bot teams    *)
(* named from v_bot_names; the draft order is a random permutation of the  *)
(* team names.                                                             *)
(***************************************************************************)
CreateTeams(user, nb) ==
  << [name |-> user, is_bot |-> FALSE] >> \o
  [i \in 1..nb |->
     [name |-> v_bot_names[((i - 1) % Len(v_bot_names)) + 1], is_bot |-> TRUE]]

Shuffles(rows) ==
  {[i \in 1..Len(rows) |-> rows[f[i]].name] : f \in Permutations1(Len(rows))}

(***************************************************************************)
(* Turn computation (snake order), as written in make_mock_draft_pick and  *)
(* again in make_mock_draft_bot_pick.  SQL arrays are 1-indexed.           *)
(***************************************************************************)
MutPickNextTeam(order, round, pick) ==
  LET v_team_count == Len(order)
      v_position_in_round == pick % v_team_count
  IN  order[v_position_in_round + 1]

PickNextTeam(order, round, pick) ==
  LET v_team_count == Len(order)
      v_position_in_round == pick % v_team_count
  IN  IF round % 2 = 0
        THEN order[v_team_count - v_position_in_round]
        ELSE order[v_position_in_round + 1]

BotNextTeam(order, round, pick) ==
  LET v_team_count == Len(order)
      v_position_in_round == pick % v_team_count
  IN  IF round % 2 = 0
        THEN order[v_team_count - v_position_in_round]
        ELSE order[v_position_in_round + 1]

\* SELECT ... FROM mock_draft_teams WHERE name = n : the matching row ids
TeamRows(n) == {i \in DOMAIN mock_draft_teams : mock_draft_teams[i].name = n}

\* players that have a pick record in this mock draft
PickedPlayers == {mock_draft_picks[i].player_id : i \in DOMAIN mock_draft_picks}

NoReq == [kind |-> "none", team |-> NULL, player |-> NoSuchPlayer]

NoSnap == [current_round |-> 0, current_pick |-> 0]

\* what a result carries besides its message: the team it names (next_team
\* of the negative bot result, the team of the wrong-turn message, team_name
\* of a bot pick), pick_number, round and is_complete
NoInfo == [team |-> NULL, pick_number |-> 0, round |-> 0, is_complete |-> FALSE]

InFlight(c) == pc[c] \notin {"idle", "done"}

Quiet == \A c \in Callers : ~InFlight(c)

OnTurn(team) ==
  /\ status = "in_progress"
  /\ PickNextTeam(draft_order, current_round, current_pick) = team

\* the team named n on turn is a human team: a row of that name is not a bot
HumanTeam(n) == \E r \in TeamRows(n) : ~mock_draft_teams[r].is_bot

\* A bot pick attempt is scheduled when its client starts the thinking delay
\* of makeMockDraftBotPick: on says that the draft was in_progress with a bot
\* on turn, pick and team are current_pick and the team on turn at that time;
\* late says that the attempt reached the server after another pick had been
\* committed.
NoSched == [on |-> FALSE, pick |-> 0, team |-> NULL, late |-> FALSE]

Scheduled ==
  LET v_next_team == PickNextTeam(draft_order, current_round, current_pick)
  IN  [on   |-> status = "in_progress" /\ ~HumanTeam(v_next_team),
       pick |-> current_pick,
       team |-> v_next_team,
       late |-> FALSE]

\* Two make_mock_draft_pick calls are issued against the same state when the
\* second is issued while the first has not executed its first statement.
\* turn: the sessions whose team is on turn in that state; avail: the
\* sessions whose player exists and has no pick record in that state.
NoBase == [on |-> FALSE, n |-> 0, pick |-> 0, turn |-> {}, avail |-> {}]

Waiting(c) == {d \in Callers \ {c} : pc[d] = "mp_read" /\ req[d].kind = "pick"}

IssueBase(c, team, player) ==
  IF Waiting(c) = {} \/ status # "in_progress"
    THEN NoBase
    ELSE [on    |-> TRUE,
          n     |-> Len(mock_draft_picks),
          pick  |-> current_pick,
          turn  |-> {d \in Waiting(c) : OnTurn(req[d].team)}
                    \cup (IF OnTurn(team) THEN {c} ELSE {}),
          avail |-> {d \in Waiting(c) : req[d].player \in Players \ PickedPlayers}
                    \cup (IF player \in Players \ PickedPlayers THEN {c} ELSE {})]

(***************************************************************************)
(* Initial state: the state create_league_mock_draft leaves behind.        *)
(***************************************************************************)
MockInit ==
  /\ \E nb \in 1..MaxBots, user \in UserTeamNames :
       /\ mock_draft_teams = CreateTeams(user, nb)
       /\ draft_order \in Shuffles(CreateTeams(user, nb))
  /\ total_rounds \in 1..MaxRounds
  /\ players = 1..NumPlayers
  /\ status = "in_progress"
  /\ current_round = 1
  /\ current_pick = 0
  /\ mock_draft_picks = << >>
  /\ pc = [c \in Callers |-> "idle"]
  /\ req = [c \in Callers |-> NoReq]
  /\ snap = [c \in Callers |-> NoSnap]
  /\ res = [c \in Callers |-> "none"]
  /\ info = [c \in Callers |-> NoInfo]
  /\ base = NoBase
  /\ sched = [c \in Callers |-> NoSched]
  /\ calls = 0
  /\ nOk = 0

dbVars == << status, current_round, current_pick, mock_draft_picks >>

envVars == << draft_order, total_rounds, mock_draft_teams, players, resolveVars, multiVars, notifyVars,
             leagueVars >>

fixedVars == << envVars, calls, loopVars, pageVars >>

(***************************************************************************)
(* A client issues supabase.rpc("make_mock_draft_pick", team, player).     *)
(***************************************************************************)
makeMockDraftPick(c, teamName, playerId) ==
  /\ ~InFlight(c)
  /\ req' = [req EXCEPT ![c] =
               [kind |-> "pick", team |-> teamName, player |-> playerId]]
  /\ base' = IssueBase(c, teamName, playerId)
  /\ sched' = sched
  /\ pc' = [pc EXCEPT ![c] = "mp_read"]
  /\ snap' = [snap EXCEPT ![c] = NoSnap]
  /\ res' = [res EXCEPT ![c] = "none"]
  /\ info' = [info EXCEPT ![c] = NoInfo]
  /\ UNCHANGED << dbVars, envVars, nOk >>

BeginPick(c) ==
  \E team \in Range(draft_order), player \in Players \cup {NoSuchPlayer} :
    makeMockDraftPick(c, team, player)

(***************************************************************************)
(* A client issues supabase.rpc("make_mock_draft_bot_pick").               *)
(***************************************************************************)
BeginBot(c) ==
  /\ ~InFlight(c)
  /\ req' = [req EXCEPT ![c] = [kind |-> "bot", team |-> NULL, player |-> NoSuchPlayer]]
  /\ base' = NoBase
  /\ sched' = [sched EXCEPT ![c] = Scheduled]
  /\ pc' = [pc EXCEPT ![c] = "bp_read"]
  /\ snap' = [snap EXCEPT ![c] = NoSnap]
  /\ res' = [res EXCEPT ![c] = "none"]
  /\ info' = [info EXCEPT ![c] = NoInfo]
  /\ UNCHANGED << dbVars, envVars, nOk >>

\* The call returns r to the client (a result or a raised error), with the
\* values i in its JSON or in its message.
Return(c, r, i) ==
  /\ res' = [res EXCEPT ![c] = r]
  /\ info' = [info EXCEPT ![c] = i]
  /\ nOk' = IF r = "ok" THEN nOk + 1 ELSE nOk
  /\ pc' = [pc EXCEPT ![c] = "done"]
  /\ req' = [req EXCEPT ![c] = NoReq]
  /\ sched' = [sched EXCEPT ![c] = NoSched]

Finish(c, r) == Return(c, r, NoInfo)

\* The call goes on to its next statement.
Goto(c, label) ==
  /\ pc' = [pc EXCEPT ![c] = label]
  /\ res' = res
  /\ info' = info
  /\ sched' = sched
  /\ nOk' = nOk

(***************************************************************************)
(* make_mock_draft_bot_pick, lines 361-389: read the draft row, resolve    *)
(* the turn, look the team up and return the negative result unless it is  *)
(* a bot.                                                                  *)
(***************************************************************************)
BotRead(c) ==
  /\ pc[c] = "bp_read"
  /\ LET v_next_team == BotNextTeam(draft_order, current_round, current_pick)
         rows == TeamRows(v_next_team)
         \* SELECT * INTO v_team keeps one of the rows with that name
         v_team_is_bot == IF rows = {} THEN {FALSE}
                          ELSE {mock_draft_teams[r].is_bot : r \in rows}
     IN  IF status # "in_progress"
           THEN Finish(c, "Mock draft not in progress")
           ELSE \E is_bot \in v_team_is_bot :
                  IF ~is_bot
                    THEN Return(c, "Not a bot's turn",
                                [NoInfo EXCEPT !.team = v_next_team])
                    ELSE /\ pc' = [pc EXCEPT ![c] = "bp_choose"]
                         /\ req' = [req EXCEPT ![c].team = v_next_team]
                         /\ sched' = [sched EXCEPT
                              ![c].late = (current_pick # sched[c].pick)]
                         /\ UNCHANGED << res, info, nOk >>
  /\ UNCHANGED << dbVars, fixedVars, snap, base >>

(***************************************************************************)
(* make_mock_draft_bot_pick, lines 391-405: a random player without a pick *)
(* record in this draft, then the nested make_mock_draft_pick.             *)
(***************************************************************************)
BotChoose(c) ==
  /\ pc[c] = "bp_choose"
  /\ LET available == Players \ PickedPlayers
     IN  IF available = {}
           THEN Finish(c, "No players available")
           ELSE /\ Goto(c, "mp_read")
                /\ \E v_player_id \in available :
                     req' = [req EXCEPT ![c].player = v_player_id]
  /\ UNCHANGED << dbVars, fixedVars, snap, base >>

\* RAISE EXCEPTION 'Not this team''s turn! Current turn: %', v_next_team
MutWrongTurn(v_next_team) == NoInfo

WrongTurn(v_next_team) == [NoInfo EXCEPT !.team = v_next_team]

(***************************************************************************)
(* make_mock_draft_pick, lines 260-294: read the draft row into            *)
(* v_mock_draft, check the status, the turn and the team.                  *)
(***************************************************************************)
MutPickReadTurnFirst(c) ==
  /\ pc[c] = "mp_read"
  /\ LET v_next_team == PickNextTeam(draft_order, current_round, current_pick)
     IN  IF v_next_team # req[c].team
           THEN /\ Return(c, "Not this team's turn", WrongTurn(v_next_team))
                /\ snap' = snap
           ELSE IF status # "in_progress"
             THEN Finish(c, "Mock draft is not in progress") /\ snap' = snap
             ELSE IF TeamRows(req[c].team) = {}
               THEN Finish(c, "Team not found in mock draft") /\ snap' = snap
               ELSE /\ Goto(c, "mp_check")
                    /\ req' = req
                    /\ snap' = [snap EXCEPT ![c] =
                                  [current_round |-> current_round,
                                   current_pick |-> current_pick]]
  /\ UNCHANGED << dbVars, fixedVars, base >>

MutPickRead(c) ==
  /\ pc[c] = "mp_read"
  /\ IF status # "in_progress"
       THEN Finish(c, "Mock draft is not in progress") /\ snap' = snap
       ELSE IF TeamRows(req[c].team) = {}
         THEN Finish(c, "Team not found in mock draft") /\ snap' = snap
         ELSE /\ Goto(c, "mp_check")
              /\ req' = req
              /\ snap' = [snap EXCEPT ![c] =
                            [current_round |-> current_round,
                             current_pick |-> current_pick]]
  /\ UNCHANGED << dbVars, fixedVars, base >>

PickRead(c) ==
  /\ pc[c] = "mp_read"
  /\ LET v_next_team == PickNextTeam(draft_order, current_round, current_pick)
     IN  IF status # "in_progress"
           THEN Finish(c, "Mock draft is not in progress") /\ snap' = snap
           ELSE IF v_next_team # req[c].team
             THEN /\ Return(c, "Not this team's turn", WrongTurn(v_next_team))
                  /\ snap' = snap
             ELSE IF TeamRows(req[c].team) = {}
               THEN Finish(c, "Team not found in mock draft") /\ snap' = snap
               ELSE /\ Goto(c, "mp_check")
                    /\ req' = req
                    /\ snap' = [snap EXCEPT ![c] =
                                  [current_round |-> current_round,
                                   current_pick |-> current_pick]]
  /\ UNCHANGED << dbVars, fixedVars, base >>

(***************************************************************************)
(* make_mock_draft_pick, lines 296-311: the player must have no pick       *)
(* record in this draft and must exist.                                    *)
(***************************************************************************)
MutPickCheckNotFound(c) ==
  /\ pc[c] = "mp_check"
  /\ IF req[c].player \in PickedPlayers
       THEN Finish(c, "Player already picked in this mock draft")
       ELSE Goto(c, "mp_commit") /\ req' = req
  /\ UNCHANGED << dbVars, fixedVars, snap, base >>

MutPickCheck(c) ==
  /\ pc[c] = "mp_check"
  /\ IF req[c].player \notin Players
       THEN Finish(c, "Player not found")
       ELSE Goto(c, "mp_commit") /\ req' = req
  /\ UNCHANGED << dbVars, fixedVars, snap, base >>

PickCheck(c) ==
  /\ pc[c] = "mp_check"
  /\ IF req[c].player \in PickedPlayers
       THEN Finish(c, "Player already picked in this mock draft")
       ELSE IF req[c].player \notin Players
         THEN Finish(c, "Player not found")
         ELSE Goto(c, "mp_commit") /\ req' = req
  /\ UNCHANGED << dbVars, fixedVars, snap, base >>

(***************************************************************************)
(* make_mock_draft_pick, lines 313-345: insert the pick and update the     *)
(* draft row from the values read into v_mock_draft; the transaction       *)
(* commits when the function returns.                                      *)
(***************************************************************************)
MutNewPickNumber(v) == v.current_pick + 2

NewPickNumber(v) == v.current_pick + 1

MutNewRound(v, v_team_count) ==
  IF NewPickNumber(v) % v_team_count = 1
    THEN v.current_round + 1
    ELSE v.current_round

NewRound(v, v_team_count) ==
  IF NewPickNumber(v) % v_team_count = 0
    THEN v.current_round + 1
    ELSE v.current_round

MutNewStatus(v_new_round) ==
  IF v_new_round >= total_rounds THEN "completed" ELSE "in_progress"

NewStatus(v_new_round) ==
  IF v_new_round > total_rounds THEN "completed" ELSE "in_progress"

MutIsComplete(v_new_round) == v_new_round >= total_rounds

\* 'is_complete', v_new_round > v_mock_draft.total_rounds
IsComplete(v_new_round) == v_new_round > total_rounds

PickCommit(c) ==
  /\ pc[c] = "mp_commit"
  /\ LET v == snap[c]
         v_team_count == Len(draft_order)
         v_new_round == NewRound(v, v_team_count)
     IN  \* SELECT id INTO v_team_id keeps one of the rows named p_team_name
         /\ \E v_team_id \in TeamRows(req[c].team) :
              mock_draft_picks' = Append(mock_draft_picks,
                [mock_team_id |-> v_team_id,
                 player_id    |-> req[c].player,
                 round        |-> v.current_round,
                 pick_number  |-> NewPickNumber(v)])
         /\ current_pick' = NewPickNumber(v)
         /\ current_round' = v_new_round
         /\ status' = NewStatus(v_new_round)
         /\ Return(c, "ok",
                   [team        |-> req[c].team,
                    pick_number |-> NewPickNumber(v),
                    round       |-> v_new_round,
                    is_complete |-> IsComplete(v_new_round)])
  /\ UNCHANGED << fixedVars, snap, base >>

(***************************************************************************)
(* cancelMockDraft: UPDATE mock_drafts SET status = 'cancelled'            *)
(* WHERE id = mockDraftId, with no condition on the current status.        *)
(***************************************************************************)
Cancel ==
  /\ status' = "cancelled"
  /\ base' = NoBase
  /\ UNCHANGED << current_round, current_pick, mock_draft_picks, fixedVars,
                  pc, req, snap, res, info, sched, nOk >>

(***************************************************************************)
(* Turn resolution of the league draft: get_next_team reads the singleton  *)
(* draft_state row and, on even rounds, indexes a reversed copy of the     *)
(* draft order.                                                            *)
(***************************************************************************)
Reversed(order) == [i \in 1..Len(order) |-> order[Len(order) + 1 - i]]

Mut_get_next_team(state) ==
  LET team_count == Len(state.draft_order)
  IN  IF team_count = 0 THEN NULL
      ELSE LET position_in_round == state.current_pick % team_count
               draft_sequence == IF state.current_round % 2 = 0
                                   THEN Reversed(state.draft_order)
                                   ELSE state.draft_order
           IN  draft_sequence[position_in_round + 1]

get_next_team(state) ==
  IF ~state.started THEN NULL
  ELSE LET team_count == Len(state.draft_order)
       IN  IF team_count = 0 THEN NULL
           ELSE LET position_in_round == state.current_pick % team_count
                    draft_sequence == IF state.current_round % 2 = 0
                                        THEN Reversed(state.draft_order)
                                        ELSE state.draft_order
                IN  draft_sequence[position_in_round + 1]

\* DEFAULT values of the draft_state columns
InitialDraftState ==
  [started |-> FALSE, current_round |-> 1, current_pick |-> 0,
   draft_order |-> << >>, draft_id |-> 0, max_teams |-> 4, total_rounds |-> 5]

(***************************************************************************)
(* The resolver on its own: any order of 2..MaxTeams teams, any round and  *)
(* any value of current_pick.                                              *)
(***************************************************************************)
TeamNamePool == << "Aces", "Bears", "Colts", "Ducks", "Eagles", "Foxes" >>

Orders(n) == {[i \in 1..n |-> TeamNamePool[f[i]]] : f \in Permutations1(n)}

DraftIds == {"d1", "d2"}

NoCall == [kind |-> "none", id |-> NULL, team |-> NULL, player |-> NoSuchPlayer]

\* no row in mock_drafts
MultiIdle ==
  /\ mock_drafts = << >>
  /\ all_teams = << >>
  /\ all_picks = << >>
  /\ last_call = NoCall

(***************************************************************************)
(* subscribeToChanges (client/lib/draft.ts): one channel listening to every *)
(* change of the tables teams, draft_state, draft_picks and players.       *)
(***************************************************************************)
Tables == {"teams", "draft_state", "draft_picks", "players"}

NoHandler == [pc |-> "idle", at |-> 0]

\* no callback is registered
NotifyIdle ==
  /\ subscribed = FALSE
  /\ events = {}
  /\ handler = NoHandler
  /\ op_seq = 0
  /\ notified = 0
  /\ pending = {}
  /\ shown = 0

\* a successful operation commits with changed rows in the tables changed
Publish(changed) ==
  IF subscribed
    THEN /\ events' = events \cup (changed \cap Tables)
         /\ op_seq' = op_seq + 1
         /\ UNCHANGED << subscribed, handler, notified, pending, shown >>
    ELSE UNCHANGED notifyVars

ResolveIdle ==
  /\ in_order = << >>
  /\ in_round = 0
  /\ in_pick = 0
  /\ out_mock = NULL
  /\ out_league = NULL
  /\ out_schedule = << >>

ResolveInit ==
  /\ \E n \in 2..MaxTeams : in_order \in Orders(n)
  /\ in_round \in 1..MaxRound
  /\ in_pick \in 0..MaxPick
  /\ out_mock = NULL
  /\ out_league = NULL
  /\ out_schedule = << >>

ResolveMock ==
  /\ out_mock = NULL
  /\ out_mock' = PickNextTeam(in_order, in_round, in_pick)
  /\ UNCHANGED << mockVars, loopVars, pageVars, leagueVars, multiVars, notifyVars, in_order, in_round,
                  in_pick, out_league, out_schedule >>

ResolveLeague ==
  /\ out_league = NULL
  /\ out_league' = get_next_team([InitialDraftState EXCEPT
                                    !.started = TRUE,
                                    !.draft_order = in_order,
                                    !.current_round = in_round,
                                    !.current_pick = in_pick])
  /\ UNCHANGED << mockVars, loopVars, pageVars, leagueVars, multiVars, notifyVars, in_order, in_round,
                  in_pick, out_mock, out_schedule >>

(***************************************************************************)
(* DraftOrderTable (client): the schedule of a draft of totalRounds        *)
(* rounds, round after round, the order reversed in even rounds.           *)
(***************************************************************************)
MutRoundOrder(draftOrder, round) == draftOrder

\* const roundOrder = isReversed ? [...draftOrder].reverse() : draftOrder
RoundOrder(draftOrder, round) ==
  IF round % 2 = 0 THEN Reversed(draftOrder) ELSE draftOrder

draftSchedule(draftOrder, currentPick, totalRounds) ==
  LET numTeams == Len(draftOrder)
  IN  [k \in 1..(totalRounds * numTeams) |->
         LET round == ((k - 1) \div numTeams) + 1
             i == (k - 1) % numTeams
         IN  [pickNumber |-> (round - 1) * numTeams + i + 1,
              round |-> round,
              teamName |-> RoundOrder(draftOrder, round)[i + 1],
              isCurrentPick |-> ((round - 1) * numTeams + i + 1 = currentPick + 1)]]

ResolveSchedule ==
  /\ out_schedule = << >>
  /\ out_schedule' = draftSchedule(in_order, in_pick, in_round)
  /\ UNCHANGED << mockVars, loopVars, pageVars, leagueVars, multiVars, notifyVars, in_order,
                  in_round, in_pick, out_mock, out_league >>

(***************************************************************************)
(* League draft                                                            *)
(***************************************************************************)
League == "L1"

LeagueTeams(n) ==
  [i \in 1..n |-> [league_id |-> League, name |-> TeamNamePool[i], is_bot |-> i > 1]]

NoLReq == [kind |-> "none", team |-> NULL, player |-> NoSuchPlayer]

LeagueIdle ==
  /\ draft_state = InitialDraftState
  /\ drafts = << >>
  /\ draft_picks = << >>
  /\ is_available = [p \in Players |-> TRUE]
  /\ teams = << >>
  /\ max_teams = 0
  /\ lpc = [c \in Callers |-> "idle"]
  /\ lreq = [c \in Callers |-> NoLReq]
  /\ lstate = [c \in Callers |-> InitialDraftState]
  /\ lres = [c \in Callers |-> "none"]
  /\ linfo = [c \in Callers |-> NULL]
  /\ start_res = "none"

\* a league whose teams have all registered; the draft has not started
LeagueInit ==
  /\ draft_state = InitialDraftState
  /\ drafts = << >>
  /\ draft_picks = << >>
  /\ is_available = [p \in Players |-> TRUE]
  /\ \E n \in 2..MaxLeagueTeams :
       /\ teams = LeagueTeams(n)
       /\ max_teams = n
  /\ lpc = [c \in Callers |-> "idle"]
  /\ lreq = [c \in Callers |-> NoLReq]
  /\ lstate = [c \in Callers |-> InitialDraftState]
  /\ lres = [c \in Callers |-> "none"]
  /\ linfo = [c \in Callers |-> NULL]
  /\ start_res = "none"

\* what is left of a deleted row of drafts or of teams (ids are not reused)
NoDraft ==
  [league_id |-> NULL, status |-> "deleted", current_pick |-> 0, total_picks |-> 0,
   current_round |-> 0]

NoTeam == [league_id |-> NULL, name |-> NULL, is_bot |-> FALSE]

leagueDb == << draft_state, drafts, draft_picks, is_available >>

callEnv == << teams, max_teams, start_res, mockVars, loopVars, pageVars, resolveVars, multiVars >>

leagueEnv == << callEnv, notifyVars >>

LeagueTeamRows(league_id) == {i \in DOMAIN teams : teams[i].league_id = league_id}

(***************************************************************************)
(* start_draft (migration 006): needs exactly max_teams teams, shuffles    *)
(* the team names, inserts a drafts row and overwrites draft_state.        *)
(***************************************************************************)
MutStartFail(r) ==
  /\ start_res' = r
  /\ draft_state' = [draft_state EXCEPT !.started = TRUE]
  /\ UNCHANGED << drafts, notifyVars >>

StartFail(r) ==
  /\ start_res' = r
  /\ UNCHANGED << draft_state, drafts, notifyVars >>

MutShuffledTeams(rows) ==
  {[i \in 1..Cardinality(rows) |-> teams[Min(rows)].name]}

\* ARRAY_AGG(name ORDER BY random()) over the teams of the league
ShuffledTeams(rows) ==
  {[i \in 1..Cardinality(rows) |-> teams[f[i]].name] :
     f \in {g \in [1..Cardinality(rows) -> rows] :
              \A i, j \in 1..Cardinality(rows) : i # j => g[i] # g[j]}}

start_draft(p_league_id) ==
  /\ \E v_user_id \in Users :
       LET rows == LeagueTeamRows(p_league_id)
           team_count == Cardinality(rows)
           required_teams == max_teams
       IN  IF v_user_id = NULL
             THEN StartFail("Not authenticated")
             ELSE IF v_user_id # Commissioner
               THEN StartFail("Only the league commissioner can start the draft")
               ELSE IF team_count # required_teams
                 THEN StartFail("Need exactly % teams to start")
                 ELSE \E shuffled_teams \in ShuffledTeams(rows) :
                        LET v_draft_id == Len(drafts) + 1
                        IN  /\ drafts' = Append(drafts,
                                  [league_id |-> p_league_id, status |-> "in_progress",
                                   current_pick |-> 0,
                                   total_picks |-> required_teams * 5,
                                   current_round |-> 1])
                            /\ draft_state' = [draft_state EXCEPT
                                  !.started = TRUE,
                                  !.draft_order = shuffled_teams,
                                  !.current_round = 1,
                                  !.current_pick = 0,
                                  !.draft_id = v_draft_id,
                                  !.max_teams = required_teams]
                            /\ start_res' = "Draft started"
                            /\ Publish({"drafts", "draft_state", "leagues"})
  /\ UNCHANGED << draft_picks, is_available, teams, max_teams, mockVars, loopVars, pageVars,
                  resolveVars, multiVars, lpc, lreq, lstate, lres, linfo >>

(***************************************************************************)
(* Row level security.  reset_draft is not SECURITY DEFINER, so its        *)
(* statements run as the caller: a role that bypasses row level security   *)
(* (the service role, the owner of the tables) or a client session, which  *)
(* may change only the rows a policy allows.  draft_state, draft_picks,    *)
(* teams and players have no policy for the statements below; drafts has   *)
(* "League commissioners can manage drafts", FOR ALL.                      *)
(***************************************************************************)
MayDeleteDraft(bypass, v_user_id, d) == bypass \/ v_user_id = Commissioner

MayDeleteDraftPicks(bypass, v_user_id) == bypass

MayDeleteTeams(bypass, v_user_id) == bypass

MayUpdatePlayers(bypass, v_user_id) == bypass

MayUpdateDraftState(bypass, v_user_id) == bypass

(***************************************************************************)
(* reset_draft (migration 002): deletes the picks and the drafts row of    *)
(* the current draft and the teams of its league, makes every player       *)
(* available and puts draft_state back.  Deleting the drafts row deletes   *)
(* its picks (ON DELETE CASCADE) and clears draft_state.draft_id (ON       *)
(* DELETE SET NULL); deleting a team deletes its picks.                    *)
(***************************************************************************)
reset_draft ==
  /\ \E bypass \in BOOLEAN, v_user_id \in Users :
       LET v_draft_id == draft_state.draft_id
           has_draft == v_draft_id \in DOMAIN drafts /\ drafts[v_draft_id] # NoDraft
           v_league_id == IF has_draft THEN drafts[v_draft_id].league_id ELSE NULL
           del_picks == has_draft /\ MayDeleteDraftPicks(bypass, v_user_id)
           del_draft == has_draft /\ MayDeleteDraft(bypass, v_user_id, v_draft_id)
           del_teams == /\ has_draft
                        /\ v_league_id # NULL
                        /\ MayDeleteTeams(bypass, v_user_id)
           gone(pick) ==
             \/ (del_picks \/ del_draft) /\ pick.draft_id = v_draft_id
             \/ del_teams /\ teams[pick.team_id].league_id = v_league_id
       IN  /\ draft_picks' = SelectSeq(draft_picks, LAMBDA pick : ~gone(pick))
           /\ drafts' = IF del_draft
                          THEN [drafts EXCEPT ![v_draft_id] = NoDraft]
                          ELSE drafts
           /\ teams' = IF del_teams
                         THEN [i \in DOMAIN teams |->
                                 IF teams[i].league_id = v_league_id
                                   THEN NoTeam ELSE teams[i]]
                         ELSE teams
           /\ is_available' = IF MayUpdatePlayers(bypass, v_user_id)
                                THEN [p \in Players |-> TRUE]
                                ELSE is_available
           /\ draft_state' =
                IF MayUpdateDraftState(bypass, v_user_id)
                  THEN [draft_state EXCEPT
                          !.started = FALSE, !.current_round = 1,
                          !.current_pick = 0, !.draft_order = << >>,
                          !.draft_id = 0]
                  ELSE IF del_draft
                    THEN [draft_state EXCEPT !.draft_id = 0]
                    ELSE draft_state
           /\ Publish(
                (IF draft_picks' # draft_picks THEN {"draft_picks"} ELSE {}) \cup
                (IF drafts' # drafts THEN {"drafts"} ELSE {}) \cup
                (IF teams' # teams THEN {"teams"} ELSE {}) \cup
                (IF MayUpdatePlayers(bypass, v_user_id) THEN {"players"} ELSE {}) \cup
                (IF MayUpdateDraftState(bypass, v_user_id) \/ del_draft
                   THEN {"draft_state"} ELSE {}))
  /\ start_res' = "Draft reset"
  /\ UNCHANGED << max_teams, mockVars, loopVars, pageVars, resolveVars, multiVars,
                  lpc, lreq, lstate, lres, linfo >>

\* the commissioner starts the draft of the league once
StartDraft == ~draft_state.started /\ start_draft(League)

LInFlight(c) == lpc[c] \notin {"idle", "done"}

\* the call of session c ends with result or error r; team is the team name
\* its message carries, if any
LReturn(c, r, team) ==
  /\ lres' = [lres EXCEPT ![c] = r]
  /\ linfo' = [linfo EXCEPT ![c] = team]
  /\ lpc' = [lpc EXCEPT ![c] = "done"]
  /\ lreq' = [lreq EXCEPT ![c] = NoLReq]
  /\ lstate' = [lstate EXCEPT ![c] = InitialDraftState]

LFinish(c, r) == LReturn(c, r, NULL)

LGoto(c, label) ==
  /\ lpc' = [lpc EXCEPT ![c] = label]
  /\ lres' = lres
  /\ linfo' = linfo

\* supabase.rpc("make_pick", team, player)
LBeginPick(c) ==
  /\ ~LInFlight(c)
  /\ \E i \in DOMAIN teams, player \in Players \cup {NoSuchPlayer} :
       lreq' = [lreq EXCEPT ![c] =
                  [kind |-> "pick", team |-> teams[i].name, player |-> player]]
  /\ lpc' = [lpc EXCEPT ![c] = "lp_read"]
  /\ lres' = [lres EXCEPT ![c] = "none"]
  /\ UNCHANGED << leagueDb, leagueEnv, lstate, linfo >>

\* supabase.rpc("make_bot_pick", team)
LBeginBot(c) ==
  /\ ~LInFlight(c)
  /\ \E i \in DOMAIN teams :
       lreq' = [lreq EXCEPT ![c] =
                  [kind |-> "bot", team |-> teams[i].name, player |-> NoSuchPlayer]]
  /\ lpc' = [lpc EXCEPT ![c] = "lp_read"]
  /\ lres' = [lres EXCEPT ![c] = "none"]
  /\ UNCHANGED << leagueDb, leagueEnv, lstate, linfo >>

(***************************************************************************)
(* make_pick / make_bot_pick: SELECT * INTO state FROM draft_state.        *)
(***************************************************************************)
LRead(c) ==
  /\ lpc[c] = "lp_read"
  /\ IF ~draft_state.started
       THEN LFinish(c, "Draft has not started")
       ELSE /\ LGoto(c, "lp_turn")
            /\ lstate' = [lstate EXCEPT ![c] = draft_state]
            /\ lreq' = lreq
  /\ UNCHANGED << leagueDb, leagueEnv >>

(***************************************************************************)
(* next_team := get_next_team(), a second read of draft_state; then the    *)
(* team is looked up in the league of the draft (and must be a bot for     *)
(* make_bot_pick).  A NULL next_team makes the comparison NULL, which IF   *)
(* treats as false.                                                        *)
(***************************************************************************)
\* make_pick raises 'Not your turn!', make_bot_pick raises
\* 'Not this team's turn! Current turn: <next_team>'
WrongTurnTeam(kind, next_team) == IF kind = "bot" THEN next_team ELSE NULL

\* SELECT t.id FROM teams t JOIN drafts d ON d.league_id = t.league_id
\* WHERE t.name = p_team_name AND d.id = state.draft_id
DraftTeamRows(d, p_team_name) ==
  IF d \in DOMAIN drafts /\ drafts[d] # NoDraft
    THEN {i \in LeagueTeamRows(drafts[d].league_id) : teams[i].name = p_team_name}
    ELSE {}

LTurn(c) ==
  /\ lpc[c] = "lp_turn"
  /\ LET next_team == get_next_team(draft_state)
         rows == DraftTeamRows(lstate[c].draft_id, lreq[c].team)
     IN  IF next_team # NULL /\ next_team # lreq[c].team
           THEN LReturn(c, "Not your turn", WrongTurnTeam(lreq[c].kind, next_team))
           ELSE IF rows = {}
             THEN LFinish(c, "Team not found")
             ELSE IF lreq[c].kind = "bot" /\ ~teams[Min(rows)].is_bot
               THEN LFinish(c, "This function is only for bot teams")
               ELSE /\ LGoto(c, "lp_player")
                    /\ UNCHANGED << lreq, lstate >>
  /\ UNCHANGED << leagueDb, leagueEnv >>

(***************************************************************************)
(* make_pick: the named player must be available.  make_bot_pick: a random *)
(* player among the available ones.                                        *)
(***************************************************************************)
LPlayer(c) ==
  /\ lpc[c] = "lp_player"
  /\ LET available == {p \in Players : is_available[p]}
     IN  IF lreq[c].kind = "pick"
           THEN IF lreq[c].player \notin available
                  THEN LFinish(c, "Player not available")
                  ELSE /\ LGoto(c, "lp_commit")
                       /\ UNCHANGED << lreq, lstate >>
           ELSE IF available = {}
                  THEN LFinish(c, "No players available")
                  ELSE /\ LGoto(c, "lp_commit")
                       /\ \E v_player_id \in available :
                            lreq' = [lreq EXCEPT ![c].player = v_player_id]
                       /\ lstate' = lstate
  /\ UNCHANGED << leagueDb, leagueEnv >>

(***************************************************************************)
(* draft_picks: UNIQUE(draft_id, pick_number), UNIQUE(draft_id, player_id) *)
(***************************************************************************)
MutDraftPicksUnique(row) == TRUE

DraftPicksUnique(row) ==
  \A i \in DOMAIN draft_picks :
    draft_picks[i].draft_id = row.draft_id =>
      /\ draft_picks[i].pick_number # row.pick_number
      /\ draft_picks[i].player_id # row.player_id

(***************************************************************************)
(* The INSERT and the three UPDATEs of make_pick / make_bot_pick, computed *)
(* from the row read into state; a unique violation aborts the call and    *)
(* rolls everything back.                                                  *)
(***************************************************************************)
LCommit(c) ==
  /\ lpc[c] = "lp_commit"
  /\ LET state == lstate[c]
         new_pick_number == state.current_pick + 1
         team_count == Len(state.draft_order)
         new_round == IF new_pick_number % team_count = 0
                        THEN state.current_round + 1
                        ELSE state.current_round
         v_team_id == Min(DraftTeamRows(state.draft_id, lreq[c].team))
         row == [draft_id |-> state.draft_id, team_id |-> v_team_id,
                 player_id |-> lreq[c].player, round |-> state.current_round,
                 pick_number |-> new_pick_number]
     IN  IF DraftTeamRows(state.draft_id, lreq[c].team) = {}
           THEN \* the drafts row or the team was deleted after it was read
                /\ LFinish(c, "foreign_key_violation")
                /\ UNCHANGED << leagueDb, notifyVars >>
           ELSE IF ~DraftPicksUnique(row)
           THEN /\ LFinish(c, "unique_violation")
                /\ UNCHANGED << leagueDb, notifyVars >>
           ELSE /\ draft_picks' = Append(draft_picks, row)
                /\ is_available' = [is_available EXCEPT ![lreq[c].player] = FALSE]
                /\ draft_state' = [draft_state EXCEPT
                      !.current_pick = new_pick_number,
                      !.current_round = new_round]
                /\ drafts' = [drafts EXCEPT
                      ![state.draft_id].current_pick = new_pick_number,
                      ![state.draft_id].current_round = new_round]
                /\ LFinish(c, "ok")
                /\ Publish({"draft_picks", "players", "draft_state", "drafts"})
  /\ UNCHANGED callEnv

(***************************************************************************)
(* getMockDraftState / get_mock_draft_state: the status and next_team of   *)
(* the draft, next_team being computed whatever the status is.  found is   *)
(* the row state.teams.find((t) => t.name === nextTeam) returns: the teams *)
(* are listed ORDER BY created_at and all rows of a draft are created in   *)
(* one transaction, so any row of that name can come first.                *)
(***************************************************************************)
NoState == [status |-> "none", next_team |-> NULL, found |-> 0]

MutStateNextTeam(order, round, pick) ==
  LET v_team_count == Len(order)
      v_position_in_round == pick % v_team_count
  IN  IF v_team_count > 0 THEN order[v_position_in_round + 1] ELSE NULL

\* get_mock_draft_state, "Calculate next team": v_next_team stays NULL for
\* an empty draft_order
StateNextTeam(order, round, pick) ==
  LET v_team_count == Len(order)
      v_position_in_round == pick % v_team_count
  IN  IF v_team_count > 0
        THEN IF round % 2 = 0
               THEN order[v_team_count - v_position_in_round]
               ELSE order[v_position_in_round + 1]
        ELSE NULL

getMockDraftState ==
  LET v_next_team == StateNextTeam(draft_order, current_round, current_pick)
  IN  {[status |-> status, next_team |-> v_next_team, found |-> r] :
         r \in TeamRows(v_next_team)}

isNextPickBot(state) ==
  /\ state.next_team # NULL
  /\ state.found \in DOMAIN mock_draft_teams
  /\ mock_draft_teams[state.found].is_bot

\* the session whose calls are those of the loop
LoopSession == "s1"

LoopIdle ==
  /\ loop_pc = "off"
  /\ loop_state = NoState
  /\ loop_failed = FALSE
  /\ loop_picks = 0

\* draftState before the first load: null
NoPageState == [status |-> "none", next_team |-> NULL, found |-> 0, current_pick |-> 0]

\* no MockDraft page is open
PageIdle ==
  /\ page_state = NoPageState
  /\ botProcessing = FALSE
  /\ effect_due = FALSE
  /\ page_pc = [c \in Callers |-> "idle"]
  /\ page_fetch = [c \in Callers |-> NoPageState]
  /\ load_pc = "off"
  /\ page_load = NoPageState
  /\ last_failed = FALSE
  /\ same_state = FALSE

(***************************************************************************)
(* processAllBotPicks: fetch the state; while it is in_progress and the    *)
(* next pick is a bot's, call makeMockDraftBotPick, leave on failure,      *)
(* fetch the state again, leave when the result said is_complete.          *)
(***************************************************************************)
processAllBotPicks ==
  /\ loop_pc = "off"
  /\ loop_pc' = "fetch"
  /\ loop_state' = NoState
  /\ loop_failed' = FALSE
  /\ loop_picks' = 0
  /\ UNCHANGED << mockVars, resolveVars, multiVars, notifyVars, pageVars, leagueVars >>

LoopFetch ==
  /\ loop_pc = "fetch"
  /\ loop_state' \in getMockDraftState
  /\ loop_pc' = "while"
  /\ UNCHANGED << loop_failed, loop_picks, mockVars, resolveVars, multiVars, notifyVars, pageVars, leagueVars >>

LoopWhileWithin(cap) ==
  /\ loop_pc = "while"
  /\ IF loop_state.status = "in_progress" /\ isNextPickBot(loop_state)
       THEN /\ calls < cap
            /\ calls' = calls + 1
            /\ loop_pc' = "rpc"
            /\ BeginBot(LoopSession)
       ELSE /\ loop_pc' = "returned"
            /\ UNCHANGED mockVars
  /\ UNCHANGED << loop_state, loop_failed, loop_picks, resolveVars, multiVars, notifyVars,
                  pageVars, leagueVars >>

LoopWhile == LoopWhileWithin(MaxCalls)

LoopFail ==
  /\ loop_pc = "rpc"
  /\ pc[LoopSession] = "done"
  /\ res[LoopSession] # "ok"
  /\ loop_failed' = TRUE
  /\ loop_pc' = "returned"
  /\ UNCHANGED << loop_state, loop_picks, mockVars, resolveVars, multiVars, notifyVars, pageVars, leagueVars >>

LoopRefresh ==
  /\ loop_pc = "rpc"
  /\ pc[LoopSession] = "done"
  /\ res[LoopSession] = "ok"
  /\ loop_state' \in getMockDraftState
  /\ loop_picks' = loop_picks + 1
  /\ loop_pc' = IF info[LoopSession].is_complete THEN "returned" ELSE "while"
  /\ UNCHANGED << loop_failed, mockVars, resolveVars, multiVars, notifyVars, pageVars, leagueVars >>

(***************************************************************************)
(* Overlapping calls: up to MaxCalls calls are issued by the two sessions, *)
(* in any interleaving of their statements.                                *)
(***************************************************************************)
IssuePick(c) ==
  /\ calls < MaxCalls
  /\ calls' = calls + 1
  /\ BeginPick(c)
  /\ UNCHANGED << loopVars, pageVars >>

IssueBot(c) ==
  /\ calls < MaxCalls
  /\ calls' = calls + 1
  /\ BeginBot(c)
  /\ UNCHANGED << loopVars, pageVars >>

Init == MockInit /\ LoopIdle /\ PageIdle /\ ResolveIdle /\ MultiIdle /\ NotifyIdle /\ LeagueIdle

Next ==
  \/ \E c \in Callers : IssuePick(c)
  \/ \E c \in Callers : IssueBot(c)
  \/ \E c \in Callers : BotRead(c)
  \/ \E c \in Callers : BotChoose(c)
  \/ \E c \in Callers : PickRead(c)
  \/ \E c \in Callers : PickCheck(c)
  \/ \E c \in Callers : PickCommit(c)
  \/ Cancel

Spec == Init /\ [][Next]_vars

(***************************************************************************)
(* Calls executed one at a time: a call is issued, and the draft is        *)
(* cancelled, only while no other call is in flight.                       *)
(***************************************************************************)
SerialPick(c) == Quiet /\ calls' = calls /\ BeginPick(c) /\ UNCHANGED << loopVars, pageVars >>

SerialBot(c) == Quiet /\ calls' = calls /\ BeginBot(c) /\ UNCHANGED << loopVars, pageVars >>

SerialCancel == Quiet /\ Cancel

SerialNext ==
  \/ \E c \in Callers : SerialPick(c)
  \/ \E c \in Callers : SerialBot(c)
  \/ \E c \in Callers : BotRead(c)
  \/ \E c \in Callers : BotChoose(c)
  \/ \E c \in Callers : PickRead(c)
  \/ \E c \in Callers : PickCheck(c)
  \/ \E c \in Callers : PickCommit(c)
  \/ SerialCancel

SerialSpec == Init /\ [][SerialNext]_vars

(***************************************************************************)
(* processAllBotPicks running in one session while the other session makes *)
(* picks and the draft may be cancelled.                                   *)
(***************************************************************************)
\* the user of the page picks for the user's own team
UserPick(c) ==
  /\ calls < MaxCalls
  /\ calls' = calls + 1
  /\ \E r \in DOMAIN mock_draft_teams, player \in Players \cup {NoSuchPlayer} :
       /\ ~mock_draft_teams[r].is_bot
       /\ makeMockDraftPick(c, mock_draft_teams[r].name, player)
  /\ UNCHANGED << loopVars, pageVars >>

LoopNext ==
  \/ processAllBotPicks
  \/ LoopFetch
  \/ LoopWhile
  \/ LoopFail
  \/ LoopRefresh
  \/ \E c \in Callers \ {LoopSession} : UserPick(c)
  \/ \E c \in Callers : BotRead(c)
  \/ \E c \in Callers : BotChoose(c)
  \/ \E c \in Callers : PickRead(c)
  \/ \E c \in Callers : PickCheck(c)
  \/ \E c \in Callers : PickCommit(c)
  \/ Cancel

LoopSpec == Init /\ [][LoopNext]_vars

(***************************************************************************)
(* One mock draft played from its first pick: draft order [A, B, C, D],    *)
(* two rounds, eight players; one call at a time, for any team, each for   *)
(* the first player that has no pick record yet.                           *)
(***************************************************************************)
ScenarioInit ==
  /\ mock_draft_teams = << [name |-> "A", is_bot |-> FALSE],
                           [name |-> "B", is_bot |-> TRUE],
                           [name |-> "C", is_bot |-> TRUE],
                           [name |-> "D", is_bot |-> TRUE] >>
  /\ draft_order = << "A", "B", "C", "D" >>
  /\ total_rounds = 2
  /\ players = 1..8
  /\ status = "in_progress"
  /\ current_round = 1
  /\ current_pick = 0
  /\ mock_draft_picks = << >>
  /\ pc = [c \in Callers |-> "idle"]
  /\ req = [c \in Callers |-> NoReq]
  /\ snap = [c \in Callers |-> NoSnap]
  /\ res = [c \in Callers |-> "none"]
  /\ info = [c \in Callers |-> NoInfo]
  /\ base = NoBase
  /\ sched = [c \in Callers |-> NoSched]
  /\ calls = 0
  /\ nOk = 0

ScenarioPick(c) ==
  /\ Quiet
  /\ LET free == Players \ PickedPlayers
         player == IF free = {} THEN NoSuchPlayer ELSE Min(free)
     IN  \E team \in Range(draft_order) : makeMockDraftPick(c, team, player)
  /\ UNCHANGED << calls, loopVars, pageVars >>

ScenarioNext ==
  \/ \E c \in Callers : ScenarioPick(c)
  \/ \E c \in Callers : PickRead(c)
  \/ \E c \in Callers : PickCheck(c)
  \/ \E c \in Callers : PickCommit(c)

ScenarioStart == ScenarioInit /\ LoopIdle /\ PageIdle /\ ResolveIdle /\ MultiIdle /\ NotifyIdle /\ LeagueIdle

ScenarioSpec == ScenarioStart /\ [][ScenarioNext]_vars

(***************************************************************************)
(* The resolver applied to every input.                                    *)
(***************************************************************************)
\* no mock draft; public.players has the rows ps
NoMockDraft(ps) ==
  /\ status = "in_progress"
  /\ current_round = 1
  /\ current_pick = 0
  /\ draft_order = << >>
  /\ total_rounds = 1
  /\ players = ps
  /\ mock_draft_teams = << >>
  /\ mock_draft_picks = << >>
  /\ pc = [c \in Callers |-> "idle"]
  /\ req = [c \in Callers |-> NoReq]
  /\ snap = [c \in Callers |-> NoSnap]
  /\ res = [c \in Callers |-> "none"]
  /\ info = [c \in Callers |-> NoInfo]
  /\ base = NoBase
  /\ sched = [c \in Callers |-> NoSched]
  /\ calls = 0
  /\ nOk = 0

MockIdle == NoMockDraft(1..NumPlayers)

ResolveNext == ResolveMock \/ ResolveLeague \/ ResolveSchedule

ResolveStart == MockIdle /\ LoopIdle /\ PageIdle /\ ResolveInit /\ MultiIdle /\ NotifyIdle /\ LeagueIdle

ResolveSpec == ResolveStart /\ [][ResolveNext]_vars

(***************************************************************************)
(* League draft with overlapping make_pick / make_bot_pick calls.          *)
(***************************************************************************)
LeagueNext ==
  \/ StartDraft
  \/ \E c \in Callers : LBeginPick(c)
  \/ \E c \in Callers : LBeginBot(c)
  \/ \E c \in Callers : LRead(c)
  \/ \E c \in Callers : LTurn(c)
  \/ \E c \in Callers : LPlayer(c)
  \/ \E c \in Callers : LCommit(c)

LeagueStart == MockIdle /\ LoopIdle /\ PageIdle /\ ResolveIdle /\ MultiIdle /\ NotifyIdle /\ LeagueInit

LeagueSpec == LeagueStart /\ [][LeagueNext]_vars

(***************************************************************************)
(* League draft whose commissioner, or anybody else, may call start_draft  *)
(* at any time: before the league is full, and again after the draft has   *)
(* started.  Nothing ties the number of rows of public.teams to max_teams, *)
(* so the league has fewer teams than required, as many, or more.          *)
(***************************************************************************)
LeagueOpenInit ==
  /\ draft_state = InitialDraftState
  /\ drafts = << >>
  /\ draft_picks = << >>
  /\ is_available = [p \in Players |-> TRUE]
  /\ \E n \in 1..(MaxLeagueTeams + 1) : teams = LeagueTeams(n)
  /\ max_teams \in 2..MaxLeagueTeams
  /\ lpc = [c \in Callers |-> "idle"]
  /\ lreq = [c \in Callers |-> NoLReq]
  /\ lstate = [c \in Callers |-> InitialDraftState]
  /\ lres = [c \in Callers |-> "none"]
  /\ linfo = [c \in Callers |-> NULL]
  /\ start_res = "none"

\* supabase.rpc("start_draft", league), whatever the draft state is
startDraft ==
  /\ Len(drafts) < MaxDrafts
  /\ start_draft(League)

\* one session issues the picks
RestartNext ==
  \/ startDraft
  \/ LBeginPick("s1")
  \/ LBeginBot("s1")
  \/ LRead("s1")
  \/ LTurn("s1")
  \/ LPlayer("s1")
  \/ LCommit("s1")

RestartStart == MockIdle /\ LoopIdle /\ PageIdle /\ ResolveIdle /\ MultiIdle /\ NotifyIdle /\ LeagueOpenInit

RestartSpec == RestartStart /\ [][RestartNext]_vars

(***************************************************************************)
(* Properties                                                              *)
(***************************************************************************)
TeamCount == Len(draft_order)

TotalPicks == total_rounds * TeamCount

Done(c) == pc[c] = "done"

HasRead(c) == snap[c].current_round >= 1

NoDupPickNumber ==
  \A i, j \in DOMAIN mock_draft_picks :
    i # j => mock_draft_picks[i].pick_number # mock_draft_picks[j].pick_number

NoSkippedPickNumber ==
  \A i \in DOMAIN mock_draft_picks :
    \A k \in 1..mock_draft_picks[i].pick_number :
      \E j \in DOMAIN mock_draft_picks : mock_draft_picks[j].pick_number = k

\* two make_mock_draft_pick calls issued against the same state, both for the
\* team on turn and for players that can be picked, both returned after
\* reading that same pre-pick state
SameSlotRace(a, b) ==
  /\ a # b
  /\ base.on
  /\ Done(a) /\ Done(b)
  /\ {a, b} \subseteq base.turn
  /\ {a, b} \subseteq base.avail
  /\ HasRead(a) /\ snap[a].current_pick = base.pick
  /\ HasRead(b) /\ snap[b].current_pick = base.pick

\* C1: two overlapping make_mock_draft_pick calls that read the same pre-pick
\* state (current_pick = K-1, both for the team on turn): exactly one
\* succeeds, afterwards current_pick = K, and no state holds two pick records
\* with the same pick_number or skips a pick_number.
C1_OneWinner ==
  /\ NoDupPickNumber
  /\ NoSkippedPickNumber
  /\ \A a, b \in Callers :
       SameSlotRace(a, b) =>
         /\ (res[a] = "ok") # (res[b] = "ok")
         /\ current_pick = base.pick + 1

\* C2: with calls executed one at a time, the i-th recorded pick has
\* pick_number i, so the pick_numbers are exactly 1..K in the order the calls
\* succeeded, K being the number of successful calls.
C2_PickNumbersDense ==
  /\ Len(mock_draft_picks) = nOk
  /\ \A i \in DOMAIN mock_draft_picks : mock_draft_picks[i].pick_number = i

C2_Witness ==
  /\ Len(mock_draft_picks) >= 2
  /\ \E c \in Callers : Done(c) /\ res[c] # "ok"

\* C3: with calls executed one at a time, every player id appears in at most
\* one pick record of the draft, and a call whose player already has a pick
\* record when it checks fails without writing anything.
C3_NoDoubleDraft ==
  /\ [](\A i, j \in DOMAIN mock_draft_picks :
          i # j => mock_draft_picks[i].player_id # mock_draft_picks[j].player_id)
  /\ [][\A c \in Callers :
          (pc[c] = "mp_check" /\ req[c].player \in PickedPlayers /\ pc'[c] # pc[c])
            => /\ res'[c] = "Player already picked in this mock draft"
               /\ mock_draft_picks' = mock_draft_picks
               /\ current_pick' = current_pick]_vars

C3_Witness ==
  \E c \in Callers : res[c] = "Player already picked in this mock draft"

\* C5: every successful pick with pick_number < R*N leaves the status
\* in_progress, the successful pick with pick_number = R*N sets it to
\* completed, no pick gets a larger pick_number, and the status is completed
\* only if the pick with pick_number R*N has been committed.
C5_CompletionBoundary ==
  /\ [](status = "completed" =>
          /\ current_pick = TotalPicks
          /\ \E i \in DOMAIN mock_draft_picks :
               mock_draft_picks[i].pick_number = TotalPicks)
  /\ [][\A c \in Callers :
          (pc[c] = "mp_commit" /\ pc'[c] = "done") =>
             LET new == mock_draft_picks'[Len(mock_draft_picks')]
             IN  /\ new.pick_number <= TotalPicks
                 /\ new.pick_number < TotalPicks => status' = "in_progress"
                 /\ new.pick_number = TotalPicks => status' = "completed"]_vars

C5_Witness ==
  /\ status = "completed"
  /\ current_pick = TotalPicks
  /\ Len(mock_draft_picks) >= TotalPicks

\* C6: with calls executed one at a time, current_pick is the number of pick
\* records and current_round = floor(current_pick / teamCount) + 1, which is
\* total_rounds + 1 once the draft has completed.
C6_CountersAgree ==
  /\ current_pick = Len(mock_draft_picks)
  /\ current_round = (current_pick \div TeamCount) + 1
  /\ status = "completed" => current_round = total_rounds + 1

C6_Witness ==
  /\ current_pick = TeamCount
  /\ current_round = 2
  /\ Quiet

\* two make_mock_draft_pick calls issued against the same in_progress state
\* for two teams of which only a's is on turn (for a player that can be
\* picked); both have returned
TurnRace(a, b) ==
  /\ a # b
  /\ base.on
  /\ Done(a) /\ Done(b)
  /\ base.turn = {a}
  /\ a \in base.avail

\* C7 as stated: exactly one of the two calls succeeds and the state
\* afterwards reflects exactly one new pick.
C7_ExactlyOne ==
  \A a, b \in Callers :
    TurnRace(a, b) =>
      /\ (res[a] = "ok") # (res[b] = "ok")
      /\ Len(mock_draft_picks) = base.n + 1
      /\ current_pick = base.pick + 1

\* C7 amended: the call of the team on turn succeeds; the other call fails
\* when it reads the draft before that pick is committed and can succeed only
\* when it read the draft after it (its team then being on turn); every
\* successful call adds exactly one pick record and advances current_pick by
\* exactly 1, with consecutive pick_numbers.
C7_OnePickPerSuccess ==
  \A a, b \in Callers :
    TurnRace(a, b) =>
      LET n == IF res[b] = "ok" THEN 2 ELSE 1
      IN  /\ res[a] = "ok"
          /\ res[b] = "ok" => HasRead(b) /\ snap[b].current_pick = base.pick + 1
          /\ Len(mock_draft_picks) = base.n + n
          /\ current_pick = base.pick + n
          /\ \A k \in 1..n :
               mock_draft_picks[base.n + k].pick_number = base.pick + k

C7_Witness ==
  \E a, b \in Callers : TurnRace(a, b) /\ res[b] = "ok"

\* C9: once the status is cancelled it stays cancelled and no pick is
\* recorded any more.
C9_CancelledIsTerminal ==
  [][status = "cancelled" =>
       /\ status' = "cancelled"
       /\ mock_draft_picks' = mock_draft_picks]_vars

\* C10: once the status is completed no operation changes it.
C10_CompletedIsTerminal ==
  [][status = "completed" => status' = "completed"]_vars

\* C4: for N >= 2 teams, round r and p = current_pick mod N, the team expected
\* to pick is order[p] (0-indexed) when r is odd and order[N-1-p] when r is
\* even, both in make_mock_draft_pick and in get_next_team.
C4_Expected ==
  LET N == Len(in_order)
      p == in_pick % N
      zeroIndexed(k) == in_order[k + 1]
  IN  IF in_round % 2 = 1 THEN zeroIndexed(p) ELSE zeroIndexed(N - 1 - p)

C4_SnakeTurn ==
  /\ out_mock # NULL => out_mock = C4_Expected
  /\ out_league # NULL => out_league = C4_Expected

C4_Witness ==
  /\ out_mock # NULL
  /\ out_league # NULL
  /\ in_round % 2 = 0
  /\ Len(in_order) >= 3
  /\ in_pick % Len(in_order) = 1
  /\ in_pick > Len(in_order)

PicksOf(d) == {i \in DOMAIN draft_picks : draft_picks[i].draft_id = d}

\* C8: overlapping make_pick / make_bot_pick calls never leave two
\* draft_picks records with the same (draft_id, pick_number) or the same
\* (draft_id, player_id); current_pick of draft_state and of the drafts row is
\* the number of pick records, the unavailable players are the picked ones,
\* and a call that fails changes no table.
C8_LoserAborts ==
  /\ [](/\ \A i, j \in DOMAIN draft_picks :
             (i # j /\ draft_picks[i].draft_id = draft_picks[j].draft_id) =>
                /\ draft_picks[i].pick_number # draft_picks[j].pick_number
                /\ draft_picks[i].player_id # draft_picks[j].player_id
        /\ draft_state.started =>
             /\ draft_state.current_pick = Cardinality(PicksOf(draft_state.draft_id))
             /\ drafts[draft_state.draft_id].current_pick = draft_state.current_pick
             /\ drafts[draft_state.draft_id].current_round = draft_state.current_round
        /\ {p \in Players : ~is_available[p]}
             = {draft_picks[i].player_id : i \in DOMAIN draft_picks})
  /\ [][\A c \in Callers :
          (lpc[c] # "done" /\ lpc'[c] = "done" /\ lres'[c] # "ok")
            => UNCHANGED leagueDb]_vars

C8_Witness ==
  /\ \E c \in Callers : lres[c] = "unique_violation"
  /\ Len(draft_picks) >= 1

LastPick == mock_draft_picks[Len(mock_draft_picks)]

\* C11: make_mock_draft_bot_pick never records a pick for a non-bot team, and
\* when the team on turn is a human team it returns 'Not a bot's turn' with
\* that team's name as next_team and leaves counters, status and pick records
\* unchanged.
C11_BotNeverPicksForHuman ==
  [][\A c \in Callers :
       /\ (req[c].kind = "bot" /\ pc[c] = "mp_commit" /\ pc'[c] = "done")
            => mock_draft_teams[LastPick'.mock_team_id].is_bot
       /\ (/\ pc[c] = "bp_read" /\ pc'[c] # "bp_read"
           /\ status = "in_progress"
           /\ HumanTeam(BotNextTeam(draft_order, current_round, current_pick)))
            => /\ res'[c] = "Not a bot's turn"
               /\ info'[c].team = BotNextTeam(draft_order, current_round, current_pick)
               /\ UNCHANGED dbVars]_vars

\* a step in which the loop's own bot pick call commits a pick
LoopCommits ==
  /\ loop_pc = "rpc"
  /\ pc[LoopSession] = "mp_commit"
  /\ pc'[LoopSession] = "done"

\* C12: processAllBotPicks issues a bot pick only while the state it last
\* fetched is in_progress with a bot on turn; it stops at once when that
\* state shows a human on turn or a status other than in_progress, or when a
\* bot pick call failed; every pick its calls record belongs to a bot team;
\* and when it returns with the fetched state in_progress and no failure, the
\* team on turn in that state is a human team.
C12_LoopStopsAtHuman ==
  /\ [][/\ (loop_pc = "while" /\ loop_pc' = "rpc")
             => /\ loop_state.status = "in_progress"
                /\ ~HumanTeam(loop_state.next_team)
        /\ (/\ loop_pc = "while"
            /\ \/ loop_state.status # "in_progress"
               \/ HumanTeam(loop_state.next_team))
             => loop_pc' \in {"while", "returned"}
        /\ (loop_pc = "rpc" /\ Done(LoopSession) /\ res[LoopSession] # "ok")
             => loop_pc' \in {"rpc", "returned"}
        /\ LoopCommits => mock_draft_teams[LastPick'.mock_team_id].is_bot]_vars
  /\ []((loop_pc = "returned" /\ loop_state.status = "in_progress" /\ ~loop_failed)
          => HumanTeam(loop_state.next_team))

\* C13: a bot pick attempt scheduled while a bot was on turn that reaches the
\* server after another pick was committed resolves the turn again: when the
\* team then on turn is a human team it returns 'Not a bot's turn' and
\* changes nothing, and it records a pick for the team that was on turn when
\* it was scheduled only if that team is on turn when the pick is recorded.
C13_StaleBotReResolves ==
  [][\A c \in Callers :
       /\ (/\ pc[c] = "bp_read" /\ pc'[c] # "bp_read"
           /\ sched[c].on /\ current_pick # sched[c].pick
           /\ status = "in_progress"
           /\ HumanTeam(BotNextTeam(draft_order, current_round, current_pick)))
            => /\ res'[c] = "Not a bot's turn"
               /\ UNCHANGED dbVars
       /\ (/\ pc[c] = "mp_commit" /\ pc'[c] = "done"
           /\ sched[c].on /\ sched[c].late
           /\ req[c].team = sched[c].team)
            => OnTurn(sched[c].team)]_vars

\* C14: make_mock_draft_pick called for an in_progress draft with a team name
\* other than that of the team on turn fails with the wrong-turn error, whose
\* message names the team on turn, and leaves pick records, current_pick,
\* current_round and status unchanged.
C14_WrongTurnRejected ==
  [][\A c \in Callers :
       (/\ pc[c] = "mp_read" /\ pc'[c] # "mp_read"
        /\ status = "in_progress"
        /\ req[c].team # PickNextTeam(draft_order, current_round, current_pick))
         => /\ res'[c] = "Not this team's turn"
            /\ info'[c].team = PickNextTeam(draft_order, current_round, current_pick)
            /\ UNCHANGED dbVars]_vars

C14_Witness ==
  \E c \in Callers :
    /\ res[c] = "Not this team's turn"
    /\ info[c].team \in Range(draft_order)
    /\ Len(mock_draft_picks) >= 1

\* the name of the team of the i-th pick record
PickTeam(i) == mock_draft_teams[mock_draft_picks[i].mock_team_id].name

\* C15: with draft order [A,B,C,D] and total_rounds = 2 the accepted picks
\* are made by A,B,C,D,D,C,B,A in that order, with pick_numbers 1..8, picks
\* 1-4 recorded with round 1 and picks 5-8 with round 2; no ninth pick is
\* accepted, and after the eighth the status is completed and current_round
\* is 3.
C15_Sequence == << "A", "B", "C", "D", "D", "C", "B", "A" >>

C15_SnakeScenario ==
  /\ Len(mock_draft_picks) <= 8
  /\ Len(mock_draft_picks) = nOk
  /\ \A i \in DOMAIN mock_draft_picks :
       /\ mock_draft_picks[i].pick_number = i
       /\ PickTeam(i) = C15_Sequence[i]
       /\ mock_draft_picks[i].round = IF i <= 4 THEN 1 ELSE 2
  /\ Len(mock_draft_picks) = 8 <=> status = "completed"
  /\ status = "completed" => current_round = 3 /\ current_pick = 8

C15_Witness ==
  /\ Len(mock_draft_picks) = 8
  /\ status = "completed"
  /\ \E c \in Callers : res[c] = "Mock draft is not in progress"

\* the team named n on turn is a bot team: a row of that name is a bot
BotTeam(n) == \E r \in TeamRows(n) : mock_draft_teams[r].is_bot

\* C16: when a bot team is on turn in an in_progress draft and every player
\* has a pick record, make_mock_draft_bot_pick goes on to look for a player,
\* returns 'No players available' and leaves pick records, current_pick,
\* current_round and status unchanged.
C16_NoPlayersAvailable ==
  [][\A c \in Callers :
       /\ (/\ pc[c] = "bp_read" /\ pc'[c] # "bp_read"
           /\ status = "in_progress"
           /\ BotTeam(BotNextTeam(draft_order, current_round, current_pick))
           /\ Players \subseteq PickedPlayers)
            => pc'[c] = "bp_choose" /\ UNCHANGED dbVars
       /\ (/\ pc[c] = "bp_choose" /\ pc'[c] # "bp_choose"
           /\ Players \subseteq PickedPlayers)
            => res'[c] = "No players available" /\ UNCHANGED dbVars]_vars

\* C17: when the team on turn calls make_mock_draft_pick for a player that
\* already has a pick record in this draft or that does not exist, the call
\* fails with an error, pick records, current_pick, current_round and status
\* are unchanged, and the same team is still on turn.
C17_PlayerUnavailable ==
  [][\A c \in Callers :
       (/\ pc[c] = "mp_check" /\ pc'[c] # "mp_check"
        /\ req[c].player \in PickedPlayers \/ req[c].player \notin Players)
         => /\ res'[c] = IF req[c].player \in PickedPlayers
                           THEN "Player already picked in this mock draft"
                           ELSE "Player not found"
            /\ UNCHANGED dbVars
            /\ status' = "in_progress"
            /\ PickNextTeam(draft_order', current_round', current_pick')
                 = req[c].team]_vars

C17_Witness ==
  /\ \E c \in Callers : res[c] = "Player already picked in this mock draft"
  /\ \E c \in Callers : res[c] = "Player not found"
  /\ Len(mock_draft_picks) >= 1

(***************************************************************************)
(* get_next_team called through the API on any draft_state row: started or *)
(* not, with an empty order or an order of 1..MaxTeams teams.              *)
(***************************************************************************)
AnyStateInit ==
  /\ \E st \in BOOLEAN, r \in 1..MaxRound, k \in 0..MaxPick :
       \E o \in {<< >>} \cup UNION {Orders(n) : n \in 1..MaxTeams} :
         draft_state = [InitialDraftState EXCEPT
                          !.started = st, !.draft_order = o,
                          !.current_round = r, !.current_pick = k]
  /\ drafts = << >>
  /\ draft_picks = << >>
  /\ is_available = [p \in Players |-> TRUE]
  /\ teams = << >>
  /\ max_teams = 0
  /\ lpc = [c \in Callers |-> "idle"]
  /\ lreq = [c \in Callers |-> NoLReq]
  /\ lstate = [c \in Callers |-> InitialDraftState]
  /\ lres = [c \in Callers |-> "none"]
  /\ linfo = [c \in Callers |-> NULL]
  /\ start_res = "none"

\* supabase.rpc("get_next_team"): the session keeps what the call returned
getNextTeam(c) ==
  /\ lpc[c] = "idle"
  /\ lpc' = [lpc EXCEPT ![c] = "done"]
  /\ lres' = [lres EXCEPT ![c] = get_next_team(draft_state)]
  /\ UNCHANGED << leagueDb, leagueEnv, lreq, lstate, linfo >>

NextTeamNext == \E c \in Callers : getNextTeam(c)

NextTeamStart == MockIdle /\ LoopIdle /\ PageIdle /\ ResolveIdle /\ MultiIdle /\ NotifyIdle /\ AnyStateInit

NextTeamSpec == NextTeamStart /\ [][NextTeamNext]_vars

\* C29: get_next_team returns null when the draft has not started or the
\* draft order is empty, and a member of the draft order in every other state.
C29_NextTeamOrNull ==
  \A c \in Callers :
    lpc[c] = "done" =>
      IF ~draft_state.started \/ draft_state.draft_order = << >>
        THEN lres[c] = NULL
        ELSE lres[c] \in Range(draft_state.draft_order)

C29_Witness ==
  /\ lpc["s1"] = "done"
  /\ lpc["s2"] = "done"
  /\ draft_state.started
  /\ draft_state.current_round % 2 = 0
  /\ Len(draft_state.draft_order) > 1
  /\ lres["s1"] = draft_state.draft_order[1]

(***************************************************************************)
(* A whole league draft, pick after pick: two teams, the twenty players of *)
(* init_draft_players, one make_pick call at a time, each for the first    *)
(* available player (or for a player that does not exist) and in the name  *)
(* of any team.                                                            *)
(***************************************************************************)
FullDraftInit ==
  /\ draft_state = InitialDraftState
  /\ drafts = << >>
  /\ draft_picks = << >>
  /\ is_available = [p \in Players |-> TRUE]
  /\ teams = LeagueTeams(2)
  /\ max_teams = 2
  /\ lpc = [c \in Callers |-> "idle"]
  /\ lreq = [c \in Callers |-> NoLReq]
  /\ lstate = [c \in Callers |-> InitialDraftState]
  /\ lres = [c \in Callers |-> "none"]
  /\ linfo = [c \in Callers |-> NULL]
  /\ start_res = "none"

makePick(c, teamName, playerName) ==
  /\ ~LInFlight(c)
  /\ lreq' = [lreq EXCEPT ![c] =
                [kind |-> "pick", team |-> teamName, player |-> playerName]]
  /\ lpc' = [lpc EXCEPT ![c] = "lp_read"]
  /\ lres' = [lres EXCEPT ![c] = "none"]
  /\ UNCHANGED << leagueDb, leagueEnv, lstate, linfo >>

FullDraftPick(c) ==
  /\ \A d \in Callers : ~LInFlight(d)
  /\ LET available == {p \in Players : is_available[p]}
         player == IF available = {} THEN NoSuchPlayer ELSE Min(available)
     IN  \E i \in DOMAIN teams : makePick(c, teams[i].name, player)

FullDraftNext ==
  \/ StartDraft
  \/ \E c \in Callers : FullDraftPick(c)
  \/ \E c \in Callers : LRead(c)
  \/ \E c \in Callers : LTurn(c)
  \/ \E c \in Callers : LPlayer(c)
  \/ \E c \in Callers : LCommit(c)

FullDraftStart == NoMockDraft(1..20) /\ LoopIdle /\ PageIdle /\ ResolveIdle /\ MultiIdle /\ NotifyIdle /\ FullDraftInit

FullDraftSpec == FullDraftStart /\ [][FullDraftNext]_vars

\* C20: the league draft never has a pick record whose pick_number is
\* greater than total_rounds * teamCount, and current_round never exceeds
\* total_rounds + 1: make_pick accepts no pick after the last one.
C20_NoPickAfterLast ==
  /\ \A i \in DOMAIN draft_picks :
       draft_picks[i].pick_number
         <= draft_state.total_rounds * Len(draft_state.draft_order)
  /\ draft_state.current_round <= draft_state.total_rounds + 1

\* C18: the draft order of the league draft changes only in the step that
\* starts the draft; while the draft is started no make_pick or make_bot_pick
\* changes it, and a start_draft call leaves it and current_round and
\* current_pick as they are.
C18_OrderWrittenOnce ==
  [][/\ draft_state'.draft_order # draft_state.draft_order
          => (~draft_state.started /\ draft_state'.started)
     /\ (draft_state.started /\ lpc' = lpc)
          => /\ draft_state'.current_round = draft_state.current_round
             /\ draft_state'.current_pick = draft_state.current_pick]_vars

\* a step of a start_draft call
StartDraftStep == lpc' = lpc /\ (start_res' # start_res \/ drafts' # drafts)

StartFailures ==
  {"Not authenticated", "Only the league commissioner can start the draft",
   "Need exactly % teams to start"}

\* the draft order lists the name of each team of the league once
OrderOfLeague(order, league_id) ==
  /\ Len(order) = Cardinality(LeagueTeamRows(league_id))
  /\ \A r \in LeagueTeamRows(league_id) :
       Cardinality({i \in DOMAIN order : order[i] = teams[r].name})
         = Cardinality({q \in LeagueTeamRows(league_id) : teams[q].name = teams[r].name})

\* C19: start_draft succeeds only when the league has exactly max_teams
\* teams; with fewer or more it raises and draft_state is unchanged; on
\* success draft_order lists every team name of the league exactly once,
\* started is true, current_round = 1 and current_pick = 0.
C19_StartPrecondition ==
  [][StartDraftStep =>
       IF Cardinality(LeagueTeamRows(League)) # max_teams
         THEN /\ start_res' \in StartFailures
              /\ UNCHANGED leagueDb
         ELSE \/ /\ start_res' \in StartFailures
                 /\ UNCHANGED leagueDb
              \/ /\ start_res' = "Draft started"
                 /\ OrderOfLeague(draft_state'.draft_order, League)
                 /\ draft_state'.started
                 /\ draft_state'.current_round = 1
                 /\ draft_state'.current_pick = 0]_vars

C19_Witness ==
  /\ start_res = "Draft started"
  /\ draft_state.started
  /\ Len(draft_state.draft_order) = max_teams

C19_WitnessRefused ==
  /\ start_res = "Need exactly % teams to start"
  /\ Cardinality(LeagueTeamRows(League)) > max_teams
  /\ ~draft_state.started

(***************************************************************************)
(* The two drafts side by side: the database holds either a mock draft,    *)
(* worked on with one call at a time, or a league whose draft is started   *)
(* once and whose make_pick / make_bot_pick calls may overlap.             *)
(***************************************************************************)
PickRecordStart ==
  \/ MockInit /\ LoopIdle /\ PageIdle /\ ResolveIdle /\ MultiIdle /\ NotifyIdle /\ LeagueIdle
  \/ MockIdle /\ LoopIdle /\ PageIdle /\ ResolveIdle /\ MultiIdle /\ NotifyIdle /\ LeagueInit

PickRecordNext ==
  \/ mock_draft_teams # << >> /\ SerialNext
  \/ teams # << >> /\ LeagueNext

PickRecordSpec == PickRecordStart /\ [][PickRecordNext]_vars

\* C23: every pick record written by make_mock_draft_pick or make_pick has
\* round = the current_round of the state before the pick (also when the pick
\* ends the round), pick_number = the current_pick of that state + 1, and
\* belongs to a team with the name that was on turn in that state.
C23_PickRecord ==
  [][/\ Len(mock_draft_picks') = Len(mock_draft_picks) + 1
          => LET r == mock_draft_picks'[Len(mock_draft_picks')]
             IN  /\ r.round = current_round
                 /\ r.pick_number = current_pick + 1
                 /\ mock_draft_teams[r.mock_team_id].name
                      = PickNextTeam(draft_order, current_round, current_pick)
     /\ Len(draft_picks') = Len(draft_picks) + 1
          => LET r == draft_picks'[Len(draft_picks')]
             IN  /\ r.round = draft_state.current_round
                 /\ r.pick_number = draft_state.current_pick + 1
                 /\ teams[r.team_id].name = get_next_team(draft_state)]_vars

\* a mock draft whose first round has just been ended by a pick
C23_Witness ==
  /\ current_round = 2
  /\ \E i \in DOMAIN mock_draft_picks :
       /\ mock_draft_picks[i].pick_number = Len(draft_order)
       /\ mock_draft_picks[i].round = 1

\* C24: a make_pick call of a team that is not on turn fails with a
\* wrong-turn error that names the team on turn, and changes no pick record,
\* no player availability and no counter.
C24_LeagueWrongTurn ==
  [][\A c \in Callers :
       (/\ lpc[c] = "lp_turn" /\ lpc'[c] # "lp_turn"
        /\ lreq[c].kind = "pick"
        /\ get_next_team(draft_state) # NULL
        /\ get_next_team(draft_state) # lreq[c].team)
          => /\ lres'[c] = "Not your turn"
             /\ linfo'[c] = get_next_team(draft_state)
             /\ UNCHANGED leagueDb]_vars

(***************************************************************************)
(* make_mock_draft_pick called with any arguments, one call at a time: the *)
(* name of a team of the draft or of no team, a player with or without a   *)
(* pick record or no player; the draft may be cancelled at any time.       *)
(***************************************************************************)
NoSuchTeam == "Nobody"

AnyPick(c) ==
  /\ Quiet
  /\ \E team \in Range(draft_order) \cup {NoSuchTeam},
        player \in Players \cup {NoSuchPlayer} :
       makeMockDraftPick(c, team, player)
  /\ UNCHANGED << calls, loopVars, pageVars >>

ValidationNext ==
  \/ \E c \in Callers : AnyPick(c)
  \/ \E c \in Callers : PickRead(c)
  \/ \E c \in Callers : PickCheck(c)
  \/ \E c \in Callers : PickCommit(c)
  \/ Cancel

ValidationSpec == Init /\ [][ValidationNext]_vars

\* C25: make_mock_draft_pick checks the status first, then the turn, then the
\* team, then the player: on a draft that is not in_progress it reports 'not
\* in progress' whatever team and player it names; otherwise a call of a team
\* that is not on turn reports the wrong turn, also when its player is already
\* picked; the player errors are reported only to the team on turn.
C25_ValidationOrder ==
  [][\A c \in Callers :
       LET v_next_team == PickNextTeam(draft_order, current_round, current_pick)
       IN  /\ (pc[c] = "mp_read" /\ pc'[c] # "mp_read")
                => IF status # "in_progress"
                     THEN res'[c] = "Mock draft is not in progress"
                     ELSE IF req[c].team # v_next_team
                       THEN res'[c] = "Not this team's turn"
                       ELSE IF TeamRows(req[c].team) = {}
                         THEN res'[c] = "Team not found in mock draft"
                         ELSE pc'[c] = "mp_check"
           /\ (pc[c] = "mp_check" /\ pc'[c] = "done")
                => res'[c] \in {"Player already picked in this mock draft",
                                "Player not found"}]_vars

\* a call that is out of turn and names a picked player is about to be decided
C25_Witness ==
  \E c \in Callers :
    /\ pc[c] = "mp_read"
    /\ status = "in_progress"
    /\ req[c].team # PickNextTeam(draft_order, current_round, current_pick)
    /\ req[c].player \in PickedPlayers
    /\ \E d \in Callers : res[d] = "Not this team's turn"

\* C27: the result of a successful make_mock_draft_pick has is_complete =
\* true exactly when the call set the status to completed, which is the pick
\* with pick_number = total_rounds * teamCount, and false for every earlier
\* pick; its pick_number is the pick_number of the record the call inserted.
C27_ResultOfPick ==
  [][\A c \in Callers :
       (pc[c] = "mp_commit" /\ pc'[c] = "done")
         => LET r == mock_draft_picks'[Len(mock_draft_picks')]
            IN  /\ res'[c] = "ok"
                /\ Len(mock_draft_picks') = Len(mock_draft_picks) + 1
                /\ info'[c].pick_number = r.pick_number
                /\ info'[c].is_complete <=> (status' = "completed")
                /\ info'[c].is_complete
                     <=> (r.pick_number = total_rounds * Len(draft_order))]_vars

C27_Witness ==
  /\ \E c \in Callers : res[c] = "ok" /\ info[c].is_complete
  /\ \E c \in Callers : res[c] = "ok" /\ ~info[c].is_complete
  /\ status = "completed"

(***************************************************************************)
(* Two leagues of two teams each, the same user being commissioner of      *)
(* both.  start_draft is called for either league at any time, reset_draft *)
(* at any time, by the service role or through a client session; one       *)
(* session issues make_pick and make_bot_pick calls in the name of any     *)
(* team.                                                                   *)
(***************************************************************************)
Leagues == {"L1", "L2"}

TwoLeagueTeams ==
  << [league_id |-> "L1", name |-> TeamNamePool[1], is_bot |-> FALSE],
     [league_id |-> "L1", name |-> TeamNamePool[2], is_bot |-> TRUE],
     [league_id |-> "L2", name |-> TeamNamePool[3], is_bot |-> FALSE],
     [league_id |-> "L2", name |-> TeamNamePool[4], is_bot |-> TRUE] >>

TwoLeagueInit ==
  /\ draft_state = InitialDraftState
  /\ drafts = << >>
  /\ draft_picks = << >>
  /\ is_available = [p \in Players |-> TRUE]
  /\ teams = TwoLeagueTeams
  /\ max_teams = 2
  /\ lpc = [c \in Callers |-> "idle"]
  /\ lreq = [c \in Callers |-> NoLReq]
  /\ lstate = [c \in Callers |-> InitialDraftState]
  /\ lres = [c \in Callers |-> "none"]
  /\ linfo = [c \in Callers |-> NULL]
  /\ start_res = "none"

startDraftOf(l) ==
  /\ Len(drafts) < MaxDrafts
  /\ start_draft(l)

TwoLeagueNext ==
  \/ \E l \in Leagues : startDraftOf(l)
  \/ reset_draft
  \/ LBeginPick("s1")
  \/ LBeginBot("s1")
  \/ LRead("s1")
  \/ LTurn("s1")
  \/ LPlayer("s1")
  \/ LCommit("s1")

TwoLeagueStart == MockIdle /\ LoopIdle /\ PageIdle /\ ResolveIdle /\ MultiIdle /\ NotifyIdle /\ TwoLeagueInit

TwoLeagueSpec == TwoLeagueStart /\ [][TwoLeagueNext]_vars

\* the league whose draft draft_state points to
CurrentLeague ==
  IF draft_state.draft_id \in DOMAIN drafts
    THEN drafts[draft_state.draft_id].league_id
    ELSE NULL

\* C21: while the draft of league L1 is in progress, a start_draft for league
\* L2 and a make_pick or make_bot_pick in the name of a team of L2 change
\* neither the draft order, current_round, current_pick and started flag of
\* L1's draft nor the players that are available to it.
C21_LeaguesIndependent ==
  [][(draft_state.started /\ CurrentLeague = "L1")
       => /\ (/\ Len(drafts') = Len(drafts) + 1
               /\ drafts'[Len(drafts')].league_id = "L2")
                => UNCHANGED << draft_state, is_available >>
          /\ \A c \in Callers :
               (/\ lpc[c] # "done" /\ lpc'[c] = "done"
                /\ \E i \in LeagueTeamRows("L2") : teams[i].name = lreq[c].team)
                  => UNCHANGED << draft_state, is_available >>]_vars

\* a step of a reset_draft call
ResetDraftStep == start_res' = "Draft reset" /\ lpc' = lpc

\* C26: after reset_draft, from any reachable state, the current draft has no
\* pick record, draft_order is empty, started is false, current_round = 1,
\* current_pick = 0, every player is available and get_next_team returns
\* null.
C26_ResetDraft ==
  [][ResetDraftStep
       => /\ \A i \in DOMAIN draft_picks' :
               draft_picks'[i].draft_id # draft_state.draft_id
          /\ draft_state'.draft_order = << >>
          /\ ~draft_state'.started
          /\ draft_state'.current_round = 1
          /\ draft_state'.current_pick = 0
          /\ \A p \in Players : is_available'[p]
          /\ get_next_team(draft_state') = NULL]_vars

(***************************************************************************)
(* Two mock drafts in the same tables.  Every statement of the mock draft  *)
(* functions is written with its WHERE clause; a call is executed as one   *)
(* step.                                                                   *)
(***************************************************************************)
DraftRows(user, nb, d) ==
  [i \in 1..(nb + 1) |->
     [mock_draft_id |-> d, name |-> CreateTeams(user, nb)[i].name,
      is_bot |-> CreateTeams(user, nb)[i].is_bot]]

\* two calls of create_league_mock_draft with the same arguments
MultiInit ==
  /\ \E u \in UserTeamNames, n \in 1..MaxBots, r \in 1..MaxRounds :
       /\ all_teams = DraftRows(u, n, "d1") \o DraftRows(u, n, "d2")
       /\ \E o1 \in Shuffles(CreateTeams(u, n)), o2 \in Shuffles(CreateTeams(u, n)) :
            mock_drafts =
              [d \in DraftIds |->
                 [status |-> "in_progress", current_round |-> 1, current_pick |-> 0,
                  draft_order |-> IF d = "d1" THEN o1 ELSE o2, total_rounds |-> r]]
  /\ all_picks = << >>
  /\ last_call = NoCall

\* WHERE mock_draft_id = p_mock_draft_id AND name = p_team_name
TeamRowsIn(p_mock_draft_id, p_team_name) ==
  {i \in DOMAIN all_teams :
     /\ all_teams[i].mock_draft_id = p_mock_draft_id
     /\ all_teams[i].name = p_team_name}

MutPickedIn(p_mock_draft_id) ==
  {all_picks[i].player_id : i \in DOMAIN all_picks}

\* SELECT player_id FROM mock_draft_picks WHERE mock_draft_id = p_mock_draft_id
PickedIn(p_mock_draft_id) ==
  {all_picks[i].player_id :
     i \in {j \in DOMAIN all_picks : all_picks[j].mock_draft_id = p_mock_draft_id}}

NextTeamIn(p_mock_draft_id) ==
  PickNextTeam(mock_drafts[p_mock_draft_id].draft_order,
               mock_drafts[p_mock_draft_id].current_round,
               mock_drafts[p_mock_draft_id].current_pick)

\* the INSERT and the UPDATE ... WHERE id = p_mock_draft_id
InsertPickIn(p_mock_draft_id, p_team_name, p_player_id) ==
  LET v == mock_drafts[p_mock_draft_id]
      v_new_round == NewRound(v, Len(v.draft_order))
  IN  /\ \E v_team_id \in TeamRowsIn(p_mock_draft_id, p_team_name) :
           all_picks' = Append(all_picks,
             [mock_draft_id |-> p_mock_draft_id, mock_team_id |-> v_team_id,
              player_id |-> p_player_id, round |-> v.current_round,
              pick_number |-> NewPickNumber(v)])
      /\ mock_drafts' = [mock_drafts EXCEPT ![p_mock_draft_id] =
           [v EXCEPT !.current_pick = NewPickNumber(v),
                     !.current_round = v_new_round,
                     !.status = IF v_new_round > v.total_rounds
                                  THEN "completed" ELSE "in_progress"]]

make_mock_draft_pick(p_mock_draft_id, p_team_name, p_player_id) ==
  /\ last_call' = [kind |-> "pick", id |-> p_mock_draft_id, team |-> p_team_name,
                   player |-> p_player_id]
  /\ IF /\ mock_drafts[p_mock_draft_id].status = "in_progress"
        /\ NextTeamIn(p_mock_draft_id) = p_team_name
        /\ TeamRowsIn(p_mock_draft_id, p_team_name) # {}
        /\ p_player_id \notin PickedIn(p_mock_draft_id)
        /\ p_player_id \in Players
       THEN InsertPickIn(p_mock_draft_id, p_team_name, p_player_id)
       ELSE UNCHANGED << mock_drafts, all_picks >>
  /\ UNCHANGED << all_teams, mockVars, loopVars, pageVars, resolveVars, notifyVars, leagueVars >>

make_mock_draft_bot_pick(p_mock_draft_id) ==
  /\ last_call' = [kind |-> "bot", id |-> p_mock_draft_id, team |-> NULL,
                   player |-> NoSuchPlayer]
  /\ LET v_next_team == NextTeamIn(p_mock_draft_id)
         free == Players \ PickedIn(p_mock_draft_id)
     IN  \/ /\ mock_drafts[p_mock_draft_id].status = "in_progress"
            /\ \E i \in TeamRowsIn(p_mock_draft_id, v_next_team) : all_teams[i].is_bot
            /\ \E v_player_id \in free :
                 InsertPickIn(p_mock_draft_id, v_next_team, v_player_id)
         \/ /\ \/ mock_drafts[p_mock_draft_id].status # "in_progress"
               \/ \E i \in TeamRowsIn(p_mock_draft_id, v_next_team) :
                    ~all_teams[i].is_bot
               \/ free = {}
            /\ UNCHANGED << mock_drafts, all_picks >>
  /\ UNCHANGED << all_teams, mockVars, loopVars, pageVars, resolveVars, notifyVars, leagueVars >>

\* UPDATE mock_drafts SET status = 'cancelled' WHERE id = mockDraftId
cancelMockDraft(mockDraftId) ==
  /\ last_call' = [kind |-> "cancel", id |-> mockDraftId, team |-> NULL,
                   player |-> NoSuchPlayer]
  /\ mock_drafts' = [mock_drafts EXCEPT ![mockDraftId].status = "cancelled"]
  /\ UNCHANGED << all_teams, all_picks, mockVars, loopVars, pageVars, resolveVars, notifyVars, leagueVars >>

MultiNext ==
  \/ /\ Len(all_picks) < MaxCalls
     /\ \E d \in DraftIds, team \in {all_teams[i].name : i \in DOMAIN all_teams},
           player \in Players : make_mock_draft_pick(d, team, player)
  \/ /\ Len(all_picks) < MaxCalls
     /\ \E d \in DraftIds : make_mock_draft_bot_pick(d)
  \/ \E d \in DraftIds : cancelMockDraft(d)

MultiStart == MockIdle /\ LoopIdle /\ PageIdle /\ ResolveIdle /\ MultiInit /\ NotifyIdle /\ LeagueIdle

MultiSpec == MultiStart /\ [][MultiNext]_vars

\* the pick records of draft d in the table picks
PickRecordsOf(picks, d) == SelectSeq(picks, LAMBDA r : r.mock_draft_id = d)

\* C22: a pick, a bot pick or a cancellation in one mock draft leaves the
\* status, current_round, current_pick, draft_order and pick records of every
\* other mock draft unchanged, and a player picked in one draft can still be
\* picked in another: the pick of the team on turn for a player without a
\* pick record in that draft is recorded.
C22_MockDraftsIndependent ==
  [][/\ \A d \in DraftIds \ {last_call'.id} :
          /\ mock_drafts'[d] = mock_drafts[d]
          /\ PickRecordsOf(all_picks', d) = PickRecordsOf(all_picks, d)
     /\ (/\ last_call'.kind = "pick"
         /\ mock_drafts[last_call'.id].status = "in_progress"
         /\ NextTeamIn(last_call'.id) = last_call'.team
         /\ \A i \in DOMAIN all_picks :
              all_picks[i].mock_draft_id = last_call'.id
                => all_picks[i].player_id # last_call'.player)
          => /\ Len(all_picks') = Len(all_picks) + 1
             /\ all_picks'[Len(all_picks')].mock_draft_id = last_call'.id
             /\ all_picks'[Len(all_picks')].player_id = last_call'.player]_vars

\* the same player has a pick record in both drafts
C22_Witness ==
  \E i, j \in DOMAIN all_picks :
    /\ all_picks[i].mock_draft_id # all_picks[j].mock_draft_id
    /\ all_picks[i].player_id = all_picks[j].player_id

(***************************************************************************)
(* Change notification.  The channel of subscribeToChanges is joined; the  *)
(* realtime service sends one message for each change of a subscribed      *)
(* table, and the handler of a message fetches the draft state and then     *)
(* hands it to the callback.  Messages of the same table that wait are one  *)
(* entry of events, and one handler runs at a time: whichever handler runs, *)
(* it fetches after every operation whose message it stands for.            *)
(***************************************************************************)
\* async () => { const data = await fetchDraftState(); ...
HandleEvent ==
  /\ handler.pc = "idle"
  /\ \E t \in events : events' = events \ {t}
  /\ handler' = [pc |-> "fetched", at |-> op_seq]
  /\ UNCHANGED << subscribed, op_seq, notified, pending, shown, mockVars, loopVars, pageVars, resolveVars,
                  multiVars, leagueVars >>

\* ... callback(data) }
InvokeCallback ==
  /\ handler.pc = "fetched"
  /\ notified' = IF handler.at > notified THEN handler.at ELSE notified
  /\ handler' = NoHandler
  /\ UNCHANGED << subscribed, events, op_seq, pending, shown, mockVars, loopVars, pageVars, resolveVars,
                  multiVars, leagueVars >>

\* the function subscribeToChanges returns: supabase.removeChannel(channel)
Unsubscribe ==
  /\ subscribed
  /\ subscribed' = FALSE
  /\ events' = {}
  /\ UNCHANGED << handler, op_seq, notified, pending, shown, mockVars, loopVars, pageVars, resolveVars,
                  multiVars, leagueVars >>

\* subscribeToChanges(callback), the channel joined
NotifyInit ==
  /\ subscribed = TRUE
  /\ events = {}
  /\ handler = NoHandler
  /\ op_seq = 0
  /\ notified = 0
  /\ pending = {}
  /\ shown = 0

NotifyNext ==
  \/ op_seq < MaxOps /\ startDraft
  \/ op_seq < MaxOps /\ reset_draft
  \/ op_seq < MaxOps /\ LBeginPick("s1")
  \/ op_seq < MaxOps /\ LBeginBot("s1")
  \/ LRead("s1")
  \/ LTurn("s1")
  \/ LPlayer("s1")
  \/ LCommit("s1")
  \/ HandleEvent
  \/ InvokeCallback
  \/ Unsubscribe

NotifyStart == MockIdle /\ LoopIdle /\ PageIdle /\ ResolveIdle /\ MultiIdle /\ NotifyInit /\ LeagueInit

\* every message is handled and every fetch returns
NotifySpec ==
  NotifyStart /\ [][NotifyNext]_vars /\ WF_vars(HandleEvent) /\ WF_vars(InvokeCallback)

\* C28: after every successful make_pick, start_draft and reset_draft, the
\* callback of a channel that stays subscribed is eventually invoked with a
\* snapshot fetched after that operation committed.
C28_EventuallyNotified ==
  \A n \in 1..MaxOps :
    (subscribed /\ op_seq >= n) ~> (notified >= n \/ ~subscribed)

(***************************************************************************)
(* The MockDraft page (client/pages/MockDraft.tsx).  React runs the bot    *)
(* effect after a render in which draftState, botProcessing or             *)
(* loadDraftData changed, with the values of that render; a state setter   *)
(* makes the effect due.  Each call of the page takes a free session.      *)
(***************************************************************************)
\* what getMockDraftState returns, with the current_pick of the draft
PageStates ==
  {[status |-> s.status, next_team |-> s.next_team, found |-> s.found,
    current_pick |-> current_pick] : s \in getMockDraftState}

\* the session of the next call of the page
PageSlot ==
  IF page_pc["s1"] = "idle" /\ ~InFlight("s1") THEN "s1" ELSE "s2"

\* if (!draftState || draftState.status !== "in_progress" || botProcessing) return
MutEffectReturns == page_state = NoPageState \/ page_state.status # "in_progress"

EffectReturns ==
  \/ page_state = NoPageState
  \/ page_state.status # "in_progress"
  \/ botProcessing

\* the bot effect: processBotPicks up to its first await
PageEffect ==
  /\ effect_due
  /\ IF EffectReturns \/ ~isNextPickBot(page_state)
       THEN /\ effect_due' = FALSE
            /\ UNCHANGED << mockVars, botProcessing, page_pc, last_failed, same_state >>
       ELSE /\ calls < MaxCalls
            /\ page_pc[PageSlot] = "idle"
            /\ calls' = calls + 1
            /\ BeginBot(PageSlot)
            /\ botProcessing' = TRUE
            /\ effect_due' = ~botProcessing
            /\ page_pc' = [page_pc EXCEPT ![PageSlot] = "rpc"]
            /\ same_state' = TRUE
            /\ last_failed' = FALSE
  /\ UNCHANGED << page_state, page_fetch, load_pc, page_load, loopVars, resolveVars,
                  multiVars, notifyVars, leagueVars >>

\* const result = await makeMockDraftBotPick(...)
PageResult(c) ==
  /\ page_pc[c] = "rpc"
  /\ pc[c] = "done"
  /\ last_failed' = (res[c] # "ok")
  /\ page_pc' = [page_pc EXCEPT ![c] = "refresh"]
  /\ UNCHANGED << page_state, botProcessing, effect_due, page_fetch, load_pc, page_load,
                  same_state, mockVars, loopVars, resolveVars, multiVars, notifyVars,
                  leagueVars >>

\* await loadDraftData(): getMockDraftState ...
PageRefresh(c) ==
  /\ page_pc[c] = "refresh"
  /\ \E s \in PageStates : page_fetch' = [page_fetch EXCEPT ![c] = s]
  /\ page_pc' = [page_pc EXCEPT ![c] = "set"]
  /\ UNCHANGED << page_state, botProcessing, effect_due, load_pc, page_load, last_failed,
                  same_state, mockVars, loopVars, resolveVars, multiVars, notifyVars,
                  leagueVars >>

\* ... setDraftState(state)
PageSetState(c) ==
  /\ page_pc[c] = "set"
  /\ page_state' = page_fetch[c]
  /\ page_fetch' = [page_fetch EXCEPT ![c] = NoPageState]
  /\ effect_due' = TRUE
  /\ page_pc' = [page_pc EXCEPT ![c] = "finally"]
  /\ same_state' = (same_state /\ page_fetch[c] = page_state)
  /\ UNCHANGED << botProcessing, load_pc, page_load, last_failed, mockVars,
                  loopVars, resolveVars, multiVars, notifyVars, leagueVars >>

\* finally { setBotProcessing(false) }
PageFinally(c) ==
  /\ page_pc[c] = "finally"
  /\ botProcessing' = FALSE
  /\ effect_due' = (effect_due \/ botProcessing)
  /\ page_pc' = [page_pc EXCEPT ![c] = "idle"]
  /\ UNCHANGED << page_state, page_fetch, load_pc, page_load, last_failed, same_state,
                  mockVars, loopVars, resolveVars, multiVars, notifyVars, leagueVars >>

\* handleMakePick: if (result.success) await loadDraftData()
PageLoad ==
  /\ load_pc = "pick"
  /\ pc["s2"] = "done"
  /\ load_pc' = IF res["s2"] = "ok" THEN "fetch" ELSE "off"
  /\ UNCHANGED << page_state, botProcessing, effect_due, page_pc, page_fetch, page_load,
                  last_failed, same_state, mockVars, loopVars, resolveVars, multiVars,
                  notifyVars, leagueVars >>

PageLoadFetch ==
  /\ load_pc = "fetch"
  /\ page_load' \in PageStates
  /\ load_pc' = "set"
  /\ UNCHANGED << page_state, botProcessing, effect_due, page_pc, page_fetch,
                  last_failed, same_state, mockVars, loopVars, resolveVars, multiVars,
                  notifyVars, leagueVars >>

PageLoadSet ==
  /\ load_pc = "set"
  /\ page_state' = page_load
  /\ page_load' = NoPageState
  /\ effect_due' = TRUE
  /\ load_pc' = "off"
  /\ same_state' = (same_state /\ page_load = page_state)
  /\ UNCHANGED << botProcessing, page_pc, page_fetch, last_failed, mockVars,
                  loopVars, resolveVars, multiVars, notifyVars, leagueVars >>

\* handleMakePick: the user of the page picks for the user's own team
PageUserPick ==
  /\ page_pc["s2"] = "idle"
  /\ load_pc = "off"
  /\ load_pc' = "pick"
  /\ Quiet
  /\ calls < MaxCalls
  /\ calls' = calls + 1
  /\ LET free == Players \ PickedPlayers
         player == IF free = {} THEN NoSuchPlayer ELSE Min(free)
     IN  \E r \in DOMAIN mock_draft_teams :
           /\ ~mock_draft_teams[r].is_bot
           /\ makeMockDraftPick("s2", mock_draft_teams[r].name, player)
  /\ UNCHANGED << page_state, botProcessing, effect_due, page_pc, page_fetch, page_load,
                  last_failed, same_state, loopVars >>

\* a mock draft of the user and one bot over a players table of any size
PageDraftInit ==
  /\ \E user \in UserTeamNames :
       /\ mock_draft_teams = CreateTeams(user, 1)
       /\ draft_order \in Shuffles(CreateTeams(user, 1))
  /\ total_rounds \in 1..MaxRounds
  /\ \E n \in 1..NumPlayers : players = 1..n
  /\ status = "in_progress"
  /\ current_round = 1
  /\ current_pick = 0
  /\ mock_draft_picks = << >>
  /\ pc = [c \in Callers |-> "idle"]
  /\ req = [c \in Callers |-> NoReq]
  /\ snap = [c \in Callers |-> NoSnap]
  /\ res = [c \in Callers |-> "none"]
  /\ info = [c \in Callers |-> NoInfo]
  /\ base = NoBase
  /\ sched = [c \in Callers |-> NoSched]
  /\ calls = 0
  /\ nOk = 0

\* the page is mounted: draftState is null and the first load is on its way
PageInit ==
  /\ page_state = NoPageState
  /\ botProcessing = FALSE
  /\ effect_due = FALSE
  /\ page_pc = [c \in Callers |-> "idle"]
  /\ page_fetch = [c \in Callers |-> NoPageState]
  /\ load_pc = "fetch"
  /\ page_load = NoPageState
  /\ last_failed = FALSE
  /\ same_state = FALSE

PageNext ==
  \/ PageEffect
  \/ \E c \in Callers : PageResult(c)
  \/ \E c \in Callers : PageRefresh(c)
  \/ \E c \in Callers : PageSetState(c)
  \/ \E c \in Callers : PageFinally(c)
  \/ PageLoad
  \/ PageLoadFetch
  \/ PageLoadSet
  \/ PageUserPick
  \/ \E c \in Callers : BotRead(c)
  \/ \E c \in Callers : BotChoose(c)
  \/ \E c \in Callers : PickRead(c)
  \/ \E c \in Callers : PickCheck(c)
  \/ \E c \in Callers : PickCommit(c)
  \/ Cancel

PageStart ==
  PageDraftInit /\ LoopIdle /\ PageInit /\ ResolveIdle /\ MultiIdle /\ NotifyIdle /\ LeagueIdle

PageSpec == PageStart /\ [][PageNext]_vars

\* C31: once a bot pick call of the page has failed, the page issues no
\* other bot pick request for the same, unchanged draft state.
C31_StopsAfterFailure ==
  [][(\E c \in Callers : page_pc[c] = "idle" /\ page_pc'[c] = "rpc")
       => ~(last_failed /\ same_state)]_vars

\* C32: at most one processBotPicks run of the page is between its request
\* and the end of its refresh, botProcessing is true all that time, and a
\* request is started only while botProcessing is false.
C32_OneBotRequest ==
  /\ Cardinality({c \in Callers : page_pc[c] # "idle"}) <= 1
  /\ \A c \in Callers : page_pc[c] # "idle" => botProcessing

\* a bot pick request of the page is outstanding while another load of the
\* page has fetched and not yet set its state
C32_Witness ==
  /\ \E c \in Callers : page_pc[c] = "rpc"
  /\ load_pc = "set"
  /\ botProcessing

(***************************************************************************)
(* processAllBotPicks beside another client of the same mock draft: three  *)
(* bots pick before the user in a draft of one round, the loop runs in one *)
(* session and the other session issues bot pick calls of its own (the     *)
(* effect of an open MockDraft page).                                      *)
(***************************************************************************)
RaceInit ==
  /\ mock_draft_teams = CreateTeams("My Team", 3)
  /\ draft_order = << "Bot Warriors", "AI Titans", "Robo Raiders", "My Team" >>
  /\ total_rounds = 1
  /\ players = 1..5
  /\ status = "in_progress"
  /\ current_round = 1
  /\ current_pick = 0
  /\ mock_draft_picks = << >>
  /\ pc = [c \in Callers |-> "idle"]
  /\ req = [c \in Callers |-> NoReq]
  /\ snap = [c \in Callers |-> NoSnap]
  /\ res = [c \in Callers |-> "none"]
  /\ info = [c \in Callers |-> NoInfo]
  /\ base = NoBase
  /\ sched = [c \in Callers |-> NoSched]
  /\ calls = 0
  /\ nOk = 0

RaceNext ==
  \/ processAllBotPicks
  \/ LoopFetch
  \/ LoopWhileWithin(MaxRaceCalls)
  \/ LoopFail
  \/ LoopRefresh
  \/ \E c \in Callers \ {LoopSession} : IssueBot(c)
  \/ \E c \in Callers : BotRead(c)
  \/ \E c \in Callers : BotChoose(c)
  \/ \E c \in Callers : PickRead(c)
  \/ \E c \in Callers : PickCheck(c)
  \/ \E c \in Callers : PickCommit(c)

RaceStart ==
  RaceInit /\ LoopIdle /\ PageIdle /\ ResolveIdle /\ MultiIdle /\ NotifyIdle /\ LeagueIdle

RaceSpec == RaceStart /\ [][RaceNext]_vars

\* C33: a run of processAllBotPicks performs at most total_rounds * teamCount
\* bot picks.
C33_LoopPicksBounded == loop_picks <= total_rounds * Len(draft_order)

(***************************************************************************)
(* A mock draft played to its end: the user and one bot, two rounds, four  *)
(* players.  While the draft is in progress the user's sessions submit a   *)
(* pick for a player without a pick record whenever the user's team is on  *)
(* turn and request a bot pick whenever a bot is; the calls of the two     *)
(* sessions may overlap, every call returns, and nobody cancels.           *)
(***************************************************************************)
PlayInit ==
  /\ mock_draft_teams = CreateTeams("My Team", 1)
  /\ draft_order = << "My Team", "Bot Warriors" >>
  /\ total_rounds = 2
  /\ players = 1..4
  /\ status = "in_progress"
  /\ current_round = 1
  /\ current_pick = 0
  /\ mock_draft_picks = << >>
  /\ pc = [c \in Callers |-> "idle"]
  /\ req = [c \in Callers |-> NoReq]
  /\ snap = [c \in Callers |-> NoSnap]
  /\ res = [c \in Callers |-> "none"]
  /\ info = [c \in Callers |-> NoInfo]
  /\ base = NoBase
  /\ sched = [c \in Callers |-> NoSched]
  /\ calls = 0
  /\ nOk = 0

\* the team on turn as the clients see it
TeamOnTurn == PickNextTeam(draft_order, current_round, current_pick)

\* the user picks a player without a pick record for the team on turn
TurnPick(c) ==
  /\ status = "in_progress"
  /\ \E r \in TeamRows(TeamOnTurn) : ~mock_draft_teams[r].is_bot
  /\ \E player \in Players \ PickedPlayers : makeMockDraftPick(c, TeamOnTurn, player)
  /\ UNCHANGED << calls, loopVars, pageVars >>

\* a bot pick is requested while a bot is on turn
TurnBot(c) ==
  /\ status = "in_progress"
  /\ \E r \in TeamRows(TeamOnTurn) : mock_draft_teams[r].is_bot
  /\ BeginBot(c)
  /\ UNCHANGED << calls, loopVars, pageVars >>

PlaySteps(c) ==
  \/ BotRead(c)
  \/ BotChoose(c)
  \/ PickRead(c)
  \/ PickCheck(c)
  \/ PickCommit(c)

PlayTurnPick == \E c \in Callers : TurnPick(c)

PlayTurnBot == \E c \in Callers : TurnBot(c)

PlayNext ==
  \/ PlayTurnPick
  \/ PlayTurnBot
  \/ \E c \in Callers : PlaySteps(c)

PlayStart ==
  PlayInit /\ LoopIdle /\ PageIdle /\ ResolveIdle /\ MultiIdle /\ NotifyIdle /\ LeagueIdle

\* every call returns; a pick and a bot pick request that stay possible are made
PlaySpec ==
  /\ PlayStart
  /\ [][PlayNext]_vars
  /\ \A c \in Callers : WF_vars(PlaySteps(c))
  /\ WF_vars(PlayTurnPick)
  /\ WF_vars(PlayTurnBot)

\* the user's team is on turn and no player is left for it to pick: the
\* user cannot submit a pick for a not-yet-picked player
UserBlocked ==
  /\ status = "in_progress"
  /\ \E r \in TeamRows(TeamOnTurn) : ~mock_draft_teams[r].is_bot
  /\ Players \ PickedPlayers = {}

\* C34: with at least total_rounds * teamCount players, no cancellation, the
\* user picking a not-yet-picked player whenever on turn and bot picks being
\* requested whenever a bot is on turn, the mock draft eventually reaches
\* status completed (behaviours in which the user is on turn with no player
\* left do not meet the premise).
C34_EventuallyCompleted == <>(status = "completed" \/ UserBlocked)

\* C35: every slot of the schedule DraftOrderTable builds has pick number
\* (r-1)*N + i + 1 and shows the team that make_mock_draft_pick and
\* get_next_team resolve for current_pick = (r-1)*N + i and current_round = r,
\* and the slot marked as current is the one with pick number current_pick + 1.
C35_ScheduleAgrees ==
  \A k \in DOMAIN out_schedule :
    LET N == Len(in_order)
        r == out_schedule[k].round
        i == k - 1 - (r - 1) * N
    IN  /\ r \in 1..in_round
        /\ i \in 0..(N - 1)
        /\ out_schedule[k].pickNumber = (r - 1) * N + i + 1
        /\ out_schedule[k].teamName = PickNextTeam(in_order, r, (r - 1) * N + i)
        /\ out_schedule[k].teamName =
             get_next_team([InitialDraftState EXCEPT
                              !.started = TRUE, !.draft_order = in_order,
                              !.current_round = r, !.current_pick = (r - 1) * N + i])
        /\ out_schedule[k].isCurrentPick <=> (out_schedule[k].pickNumber = in_pick + 1)

\* a schedule whose current slot is in an even round and shows another team
\* than the same slot of the first round
C35_Witness ==
  \E k \in DOMAIN out_schedule :
    /\ out_schedule[k].isCurrentPick
    /\ out_schedule[k].round % 2 = 0
    /\ out_schedule[k].teamName # out_schedule[k - Len(in_order)].teamName

\* C36: while the mock draft is in_progress the next_team that
\* get_mock_draft_state reports is the team whose make_mock_draft_pick passes
\* the turn check (every other team gets 'Not this team's turn'), and it is
\* the team make_mock_draft_bot_pick resolves, reports or goes on to pick for.
C36_TurnCopiesAgree ==
  [][status = "in_progress" =>
       /\ \A st \in getMockDraftState :
            /\ st.next_team = PickNextTeam(draft_order, current_round, current_pick)
            /\ st.next_team = BotNextTeam(draft_order, current_round, current_pick)
       /\ \A c \in Callers : \A st \in getMockDraftState :
            /\ (pc[c] = "mp_read" /\ pc'[c] = "mp_check")
                 => req[c].team = st.next_team
            /\ (pc[c] = "mp_read" /\ res'[c] = "Not this team's turn")
                 => (req[c].team # st.next_team /\ info'[c].team = st.next_team)
            /\ (pc[c] = "bp_read" /\ pc'[c] = "bp_choose")
                 => req'[c].team = st.next_team
            /\ (pc[c] = "bp_read" /\ res'[c] = "Not a bot's turn")
                 => info'[c].team = st.next_team]_vars

\* a bot pick call has resolved its team in an even round, where the order
\* is read backwards, and the team is the one next_team reports
C36_Witness ==
  /\ status = "in_progress"
  /\ current_round % 2 = 0
  /\ draft_order[(current_pick % Len(draft_order)) + 1]
       # StateNextTeam(draft_order, current_round, current_pick)
  /\ \E c \in Callers :
       /\ pc[c] = "bp_choose"
       /\ req[c].team = StateNextTeam(draft_order, current_round, current_pick)

\* C37: reset_draft on a started league draft leaves no team in the league
\* of that draft, and a start_draft call succeeds only for a league that has
\* exactly max_teams teams, so that it fails on the team count after the
\* reset until the teams have registered again.
C37_ResetDeletesTeams ==
  [][/\ (ResetDraftStep /\ draft_state.started /\ CurrentLeague # NULL)
          => {i \in DOMAIN teams' : teams'[i].league_id = CurrentLeague} = {}
     /\ (Len(drafts') = Len(drafts) + 1)
          => /\ start_res' = "Draft started"
             /\ Cardinality(LeagueTeamRows(drafts'[Len(drafts')].league_id))
                  = max_teams
             /\ max_teams > 0]_vars

(***************************************************************************)
(* The snapshots of the Draft page.  Every message of the channel starts   *)
(* its handler at once, so several fetchDraftState calls are in flight;    *)
(* each reads the draft_state row when its query is executed and hands its *)
(* snapshot to the callback when all its queries have returned, in no      *)
(* particular order.  The callback is setDraftData(data).  Fetches that    *)
(* read the same row return equal snapshots and are one element of         *)
(* pending.  The page has loaded the state of the league before it         *)
(* subscribes.                                                             *)
(***************************************************************************)
\* supabase.from("draft_state").select("*").eq("id", 1).single()
SnapshotRead ==
  /\ \E t \in events : events' = events \ {t}
  /\ pending' = pending \cup {draft_state.current_pick}
  /\ UNCHANGED << subscribed, handler, op_seq, notified, shown, mockVars, loopVars,
                  pageVars, resolveVars, multiVars, leagueVars >>

\* callback(data): setDraftData(data)
SnapshotDeliver ==
  /\ \E v \in pending :
       /\ shown' = v
       /\ pending' = pending \ {v}
  /\ UNCHANGED << subscribed, events, handler, op_seq, notified, mockVars, loopVars,
                  pageVars, resolveVars, multiVars, leagueVars >>

SnapshotNext ==
  \/ op_seq < MaxOps /\ StartDraft
  \/ op_seq < MaxOps /\ LBeginPick("s1")
  \/ op_seq < MaxOps /\ LBeginBot("s1")
  \/ LRead("s1")
  \/ LTurn("s1")
  \/ LPlayer("s1")
  \/ LCommit("s1")
  \/ SnapshotRead
  \/ SnapshotDeliver

SnapshotStart == MockIdle /\ LoopIdle /\ PageIdle /\ ResolveIdle /\ MultiIdle /\ NotifyInit /\ LeagueInit

SnapshotSpec == SnapshotStart /\ [][SnapshotNext]_vars

\* C38: the callback is never invoked with a snapshot whose current_pick is
\* lower than that of the snapshot it received before, and when no message
\* and no fetch is left the snapshot the page holds has the current_pick of
\* the draft.
C38_SnapshotsMonotonic ==
  [][/\ shown' >= shown
     /\ (events = {} /\ pending = {} /\ ~LInFlight("s1"))
          => shown = draft_state.current_pick]_vars

\* C30: within the mock draft no two teams share a name, so the draft order
\* has num_bots + 1 pairwise distinct entries and every entry names exactly
\* one team, which is either the human team or a bot.
C30_TeamNamesUnique ==
  /\ \A i, j \in DOMAIN mock_draft_teams :
       i # j => mock_draft_teams[i].name # mock_draft_teams[j].name
  /\ Len(draft_order) = Len(mock_draft_teams)
  /\ \A i, j \in DOMAIN draft_order : i # j => draft_order[i] # draft_order[j]
  /\ \A i \in DOMAIN draft_order : Cardinality(TeamRows(draft_order[i])) = 1

====
